---- MODULE Spec2Model ----
(***************************************************************************)
(* A model of the marketplace backend: createOrder and updateOrderStatus   *)
(* of Module/Commande/Commande.controller.ts, the notification handlers,  *)
(* login of Module/Client/Client.controller.ts, createSubscription and    *)
(* updateSubscription of Module/Admin/Admin.controller.ts, createPayment  *)
(* of Module/Payment/Payment.routes.ts, updateProduct and deleteProduct,  *)
(* and the gates of middleware/auth.middleware.ts in front of the routes. *)
(* A handler is an async function: every await is one database operation, *)
(* and the synchronous code that follows it runs in the same step.  Other  *)
(* requests may take steps between two awaits of one request.  A write     *)
(* either happens or throws, and the handler's catch answers 500; a read   *)
(* that throws is answered 500 too and changes nothing: reads are modelled *)
(* as succeeding.                                                          *)
(***************************************************************************)
EXTENDS Integers, Sequences, FiniteSets, TLC

\* ------------------------------------------------------------------ bounds

\* Line items of one createOrder body.
MaxItems == 2
\* Notifications stored when the notification handlers start.
MaxNotifs == 3

\* ------------------------------------------------------------- identities

NoUser == "none"
NoId == "none"
NoSupplier == "none"
NoStatus == "none"

ClientIds == {"c1"}
SupplierIds == {"s1", "s2"}
UserIds == ClientIds \cup SupplierIds

\* The createOrder requests in flight together, numbered as they arrive; the
\* _id of the order a request makes is the request's number.
CoReqs == {1, 2}
\* The updateOrderStatus requests, numbered as they arrive.
UsReqs == {1, 2, 3}

VARIABLES
  users,          \* User collection: id -> [role, status]
  products,       \* Product collection: id -> [name, sellingPrice, quantity, supplierId]
  orders,         \* Commande collection: _id -> order document
  notifications,  \* Notification collection, in insertion order
  emitted,        \* events published on the Socket.io server, in order
  io,             \* the module-level Socket.io handle is set
  co,             \* createOrder requests: request -> frame
  us,             \* updateOrderStatus requests: request -> frame
  nresp,          \* the last answer of a notification handler
  abonnements,    \* Abonnement collection, in insertion order; _id is the index
  refreshTokens,  \* RefreshToken collection
  now,            \* the server's clock, the value of new Date()
  lg,             \* login requests: request -> frame
  ad,             \* createSubscription / updateSubscription requests: request -> frame
  payments,       \* Payment collection, in insertion order
  pay,            \* createPayment requests: request -> frame
  pu,             \* updateProduct / deleteProduct requests: request -> frame
  gn,             \* the getNotifications request
  gate,           \* a request in front of the middleware of its route
  registered,     \* the users inserted since the start, in insertion order
  rg,             \* register / registerSupplier / createAdmin requests: request -> frame
  papiers,        \* Papier collection, in insertion order
  dc,             \* document upload requests: request -> frame
  passwords,      \* the password stored for each user: id -> password
  resets,         \* PasswordReset collection, in insertion order
  rp,             \* resetPassword requests: request -> frame
  sockets,        \* the users whose socket is connected and has joined its room
  delivered,      \* the events that have reached a connected socket, in order
  cp              \* createProduct / uploadProductsFromExcel requests: request -> frame

accountVars == <<abonnements, refreshTokens, now, lg, ad>>
paymentVars == <<payments, pay>>
queryVars == <<pu, gn, gate>>
registerVars == <<registered, rg>>
docVars == <<papiers, dc>>
resetVars == <<passwords, resets, rp>>
realtimeVars == <<sockets, delivered>>
moreVars == <<registerVars, docVars, resetVars, realtimeVars, cp>>

vars ==
  <<users, products, orders, notifications, emitted, io, co, us, nresp,
    accountVars, paymentVars, queryVars, moreVars>>

\* ------------------------------------------------- Socket.io rooms (index.ts)

\* io.on("connection"): the room a connected user's socket joins.
JoinedRoom(userId) ==
  IF users[userId].role = "supplier" THEN <<"supplier", userId>>
  ELSE IF users[userId].role = "client" THEN <<"client", userId>>
  ELSE <<"admin">>

\* An emit reaches the sockets that have joined its room: with none
\* connected the event is delivered to nobody.
Deliver(event) ==
  IF \E u \in sockets : JoinedRoom(u) = event.room
  THEN Append(delivered, event) ELSE delivered

\* ------------------------------------------------------------- createOrder

\* The line items a request may send: a malformed line (quantity 0), a line
\* for a product that does not exist (p0), and lines for the three products.
Items ==
  {[id |-> "p1", quantity |-> 0], [id |-> "p0", quantity |-> 1],
   [id |-> "p1", quantity |-> 1], [id |-> "p2", quantity |-> 2],
   [id |-> "p3", quantity |-> 1]}

ItemSeqs == UNION {[1..n -> Items] : n \in 0..MaxItems}

\* req.body.products: an array of items, or something that is no array.
Bodies ==
  {[isArray |-> FALSE, items |-> <<>>]}
    \cup {[isArray |-> TRUE, items |-> s] : s \in ItemSeqs}

CoIdle ==
  [pc |-> "idle", userId |-> NoUser, body |-> [isArray |-> FALSE, items |-> <<>>],
   i |-> 0, total |-> 0, processedProducts |-> <<>>, supplierIds |-> {},
   j |-> 0, code |-> 0, msg |-> "none"]

\* res.status(code).json(...); return
Respond(f, code, msg) == [f EXCEPT !.pc = "done", !.code = code, !.msg = msg]

\* A variant that checks the id alone.
InvalidItemIdOnly(item) == item.id = NoId

\* !item.id || !item.quantity || item.quantity < 1
InvalidItem(item) == item.id = NoId \/ item.quantity = 0 \/ item.quantity < 1

SupplierOf(f) == CHOOSE s \in f.supplierIds : TRUE

\* A variant that orders from the first supplier when there are several.
AfterLoopFirstSupplier(f) ==
  IF Cardinality(f.supplierIds) = 0 THEN Respond(f, 400, "no_supplier")
  ELSE [f EXCEPT !.pc = "save"]

\* The code after the loop, up to newOrder.save().
AfterLoop(f) ==
  IF Cardinality(f.supplierIds) = 0 THEN Respond(f, 400, "no_supplier")
  ELSE IF Cardinality(f.supplierIds) > 1 THEN Respond(f, 400, "same_supplier")
  ELSE [f EXCEPT !.pc = "save"]

\* The head of the loop for item f.i, up to Product.findById; after the last
\* item, the code after the loop.
EnterItem(f) ==
  IF f.i <= Len(f.body.items)
  THEN IF InvalidItem(f.body.items[f.i])
       THEN Respond(f, 400, "invalid_product_data")
       ELSE [f EXCEPT !.pc = "findProduct"]
  ELSE AfterLoop(f)

\* The request arrives; the code up to User.findById.  A request with no
\* identity is answered before its body is read.
Begin(userId, body) ==
  LET f == [CoIdle EXCEPT !.userId = userId, !.body = body]
  IN IF userId = NoUser THEN Respond(CoIdle, 401, "unauthorized")
     ELSE IF ~body.isArray \/ Len(body.items) = 0
          THEN Respond(f, 400, "products_required")
          ELSE [f EXCEPT !.pc = "findUser"]

CoBegin(r) ==
  /\ co[r].pc = "idle"
  /\ \A q \in CoReqs : q < r => co[q].pc # "idle"
  /\ \E userId \in {NoUser, "c1", "s1"}, body \in Bodies :
       co' = [co EXCEPT ![r] = Begin(userId, body)]
  /\ UNCHANGED <<users, products, orders, notifications, emitted, io, us, nresp,
                accountVars, paymentVars, queryVars, moreVars>>

\* User.findById resolves; the role check and the head of the first iteration.
AfterFindUser(f) ==
  IF f.userId \notin DOMAIN users \/ users[f.userId].role # "client"
  THEN Respond(f, 403, "only_clients")
  ELSE EnterItem([f EXCEPT !.i = 1])

CoFindUser(r) ==
  /\ co[r].pc = "findUser"
  /\ co' = [co EXCEPT ![r] = AfterFindUser(co[r])]
  /\ UNCHANGED <<users, products, orders, notifications, emitted, io, us, nresp,
                accountVars, paymentVars, queryVars, moreVars>>

\* A variant that adds the unit price once for a line.
ItemPriceUnit(product, item) == product.sellingPrice

\* total += product.sellingPrice * item.quantity
ItemPrice(product, item) == product.sellingPrice * item.quantity

\* Product.findById resolves for item f.i: the rest of the iteration and the
\* head of the next one.
AfterFindProduct(f) ==
  LET item == f.body.items[f.i]
  IN IF item.id \notin DOMAIN products THEN Respond(f, 404, "product_not_found")
     ELSE LET product == products[item.id]
          IN IF product.quantity < item.quantity
             THEN Respond(f, 400, "insufficient_quantity")
             ELSE EnterItem(
                    [f EXCEPT
                       !.supplierIds =
                          IF product.supplierId # NoSupplier
                          THEN @ \cup {product.supplierId} ELSE @,
                       !.total = @ + ItemPrice(product, item),
                       !.processedProducts =
                          Append(@, [productId |-> item.id,
                                     name |-> product.name,
                                     price |-> product.sellingPrice,
                                     quantity |-> item.quantity]),
                       !.i = @ + 1])

CoFindProduct(r) ==
  /\ co[r].pc = "findProduct"
  /\ co' = [co EXCEPT ![r] = AfterFindProduct(co[r])]
  /\ UNCHANGED <<users, products, orders, notifications, emitted, io, us, nresp,
                accountVars, paymentVars, queryVars, moreVars>>

\* new Commande({...}): its _id is made by the request, here the request's own.
NewOrder(f) ==
  [total |-> f.total, products |-> f.processedProducts, idBuyer |-> f.userId,
   idSupplier |-> SupplierOf(f), status |-> "en cours"]

\* await newOrder.save(): the insert, or a throw that the catch answers.
CoSaveOrder(r) ==
  /\ co[r].pc = "save"
  /\ \/ /\ orders' = [o \in DOMAIN orders \cup {r} |->
                        IF o = r THEN NewOrder(co[r]) ELSE orders[o]]
        /\ co' = [co EXCEPT ![r] = [@ EXCEPT !.pc = "decrement"]]
     \/ /\ co' = [co EXCEPT ![r] = Respond(@, 500, "internal")]
        /\ UNCHANGED orders
  /\ UNCHANGED <<users, products, notifications, emitted, io, us, nresp,
                accountVars, paymentVars, queryVars, moreVars>>

\* { $inc: { quantity: -item.quantity } }
IncQuantity(product, item) == [product EXCEPT !.quantity = @ - item.quantity]

\* Product.findByIdAndUpdate(item.id, ...): no document, no update.
FindByIdAndUpdate(item) ==
  IF item.id \in DOMAIN products
  THEN [products EXCEPT ![item.id] = IncQuantity(@, item)]
  ELSE products

\* One iteration of the second loop: issue the update for item j + 1.
CoDecrement(r) ==
  /\ co[r].pc = "decrement"
  /\ co[r].j < Len(co[r].body.items)
  /\ \/ /\ products' = FindByIdAndUpdate(co[r].body.items[co[r].j + 1])
        /\ co' = [co EXCEPT ![r] = [@ EXCEPT !.j = @ + 1]]
     \/ /\ co' = [co EXCEPT ![r] = Respond(@, 500, "internal")]
        /\ UNCHANGED products
  /\ UNCHANGED <<users, orders, notifications, emitted, io, us, nresp,
                accountVars, paymentVars, queryVars, moreVars>>

\* Commande.findById(...).populate(...): a read for the response.
CoPopulate(r) ==
  /\ co[r].pc = "decrement"
  /\ co[r].j = Len(co[r].body.items)
  /\ co' = [co EXCEPT ![r] = [@ EXCEPT !.pc = "notify"]]
  /\ UNCHANGED <<users, products, orders, notifications, emitted, io, us, nresp,
                accountVars, paymentVars, queryVars, moreVars>>

\* new Notification({...}) of createOrder.
NewOrderNotification(r, f) ==
  [id |-> <<"co", r>>, idSender |-> f.userId, idReceiver |-> SupplierOf(f),
   type |-> "new_order", message |-> "Nouvelle commande", isRead |-> FALSE,
   createdAt |-> now]

\* A variant of the handlers without the test of the handle: io.to on null
\* throws, and the catch answers.
AnswerAfterEmitUnguarded(f, code, msg) ==
  IF io THEN Respond(f, code, msg) ELSE Respond(f, 500, "internal")

\* if (io) { io.to(room).emit(...) } and the answer that follows: without a
\* handle the emit is skipped, and an emit returns whether or not a socket
\* receives the event.
AnswerAfterEmit(f, code, msg) == Respond(f, code, msg)

\* A variant that publishes to the buyer's room.
NewOrderEventToBuyer(r, f) ==
  [room |-> <<"client", f.userId>>, event |-> "newOrder", orderId |-> r,
   from |-> <<"co", r>>]

\* io.to(`supplier_${supplierId}`).emit("newOrder", {...})
NewOrderEvent(r, f) ==
  [room |-> <<"supplier", SupplierOf(f)>>, event |-> "newOrder", orderId |-> r,
   from |-> <<"co", r>>]

\* await notification.save(), then the emit and the 201 answer.
CoNotify(r) ==
  /\ co[r].pc = "notify"
  /\ \/ /\ notifications' = Append(notifications, NewOrderNotification(r, co[r]))
        /\ emitted' = IF io THEN Append(emitted, NewOrderEvent(r, co[r])) ELSE emitted
        /\ delivered' = IF io THEN Deliver(NewOrderEvent(r, co[r])) ELSE delivered
        /\ co' = [co EXCEPT ![r] = AnswerAfterEmit(@, 201, "created")]
     \/ /\ co' = [co EXCEPT ![r] = Respond(@, 500, "internal")]
        /\ UNCHANGED <<notifications, emitted, delivered>>
  /\ UNCHANGED <<users, products, orders, io, us, nresp,
                accountVars, paymentVars, queryVars, registerVars, docVars,
                resetVars, sockets, cp>>

\* ------------------------------------------------------- updateOrderStatus

Statuses == {"en cours", "on route", "arrived"}

\* What a request may send as req.body.status: nothing, a word that is no
\* status, or a status.
StatusInputs == {NoStatus, "bogus"} \cup Statuses

\* req.params.orderId: the order of the collection, or an id of no order.
OrderIdInputs == {1, 9}

UsIdle ==
  [pc |-> "idle", userId |-> NoUser, orderId |-> 0, status |-> NoStatus,
   cur |-> "unread", written |-> FALSE, code |-> 0, msg |-> "none"]

\* !status || !["en cours", "on route", "arrived"].includes(status)
InvalidStatus(status) == status = NoStatus \/ status \notin Statuses

\* The request arrives; the code up to Commande.findById.  A request with no
\* identity is answered before its parameters are read.
UsBeginFrame(userId, orderId, status) ==
  LET f == [UsIdle EXCEPT !.userId = userId, !.orderId = orderId, !.status = status]
  IN IF userId = NoUser THEN Respond(UsIdle, 401, "unauthorized")
     ELSE IF InvalidStatus(status) THEN Respond(f, 400, "invalid_status")
     ELSE [f EXCEPT !.pc = "findOrder"]

UsBegin(r) ==
  /\ us[r].pc = "idle"
  /\ \A q \in UsReqs : q < r => us[q].pc # "idle"
  /\ \E userId \in {NoUser} \cup UserIds, orderId \in OrderIdInputs,
        status \in StatusInputs :
       us' = [us EXCEPT ![r] = UsBeginFrame(userId, orderId, status)]
  /\ UNCHANGED <<users, products, orders, notifications, emitted, io, co, nresp,
                accountVars, paymentVars, queryVars, moreVars>>

\* A variant that lets every user with the supplier role through.
NotTheSupplierByRole(order, userId) == users[userId].role # "supplier"

\* order.idSupplier.toString() !== userId
NotTheSupplier(order, userId) == order.idSupplier # userId

\* A variant without the check of an order that has arrived.
TransitionErrorNoTerminal(currentStatus, status) ==
  IF currentStatus = "en cours" /\ status # "on route" THEN "only_to_on_route"
  ELSE IF currentStatus = "on route" /\ status # "arrived" THEN "only_to_arrived"
  ELSE "none"

\* The three checks of the status transition; "none" when they all pass.
TransitionError(currentStatus, status) ==
  IF currentStatus = "en cours" /\ status # "on route" THEN "only_to_on_route"
  ELSE IF currentStatus = "on route" /\ status # "arrived" THEN "only_to_arrived"
  ELSE IF currentStatus = "arrived" THEN "already_arrived"
  ELSE "none"

\* Commande.findById resolves: the checks, then order.status = status, up to
\* order.save().
AfterFindOrder(f) ==
  IF f.orderId \notin DOMAIN orders THEN Respond(f, 404, "order_not_found")
  ELSE LET order == orders[f.orderId]
           g == [f EXCEPT !.cur = order.status]
       IN IF NotTheSupplier(order, f.userId) THEN Respond(g, 403, "only_the_supplier")
          ELSE IF TransitionError(order.status, f.status) # "none"
               THEN Respond(g, 400, TransitionError(order.status, f.status))
               ELSE [g EXCEPT !.pc = "save"]

UsFindOrder(r) ==
  /\ us[r].pc = "findOrder"
  /\ us' = [us EXCEPT ![r] = AfterFindOrder(us[r])]
  /\ UNCHANGED <<users, products, orders, notifications, emitted, io, co, nresp,
                accountVars, paymentVars, queryVars, moreVars>>

\* await order.save(): the update sets the one modified path, status, on the
\* stored document whatever its status is by then; or it throws.
UsSaveOrder(r) ==
  /\ us[r].pc = "save"
  /\ \/ /\ orders' = [orders EXCEPT ![us[r].orderId].status = us[r].status]
        /\ us' = [us EXCEPT ![r] = [@ EXCEPT !.pc = "notify", !.written = TRUE]]
     \/ /\ us' = [us EXCEPT ![r] = Respond(@, 500, "internal")]
        /\ UNCHANGED orders
  /\ UNCHANGED <<users, products, notifications, emitted, io, co, nresp,
                accountVars, paymentVars, queryVars, moreVars>>

\* statusMessages[status] || `Le statut de votre commande a ete mis a jour`
StatusMessage(status) ==
  IF status = "on route" THEN "Votre commande est en route"
  ELSE IF status = "arrived" THEN "Votre commande est arrivee"
  ELSE "Le statut de votre commande a ete mis a jour"

\* A variant that addresses the notification to the order's supplier.
StatusNotificationToSupplier(r, f) ==
  [id |-> <<"us", r>>, idSender |-> f.userId,
   idReceiver |-> orders[f.orderId].idSupplier, type |-> "order_status",
   message |-> StatusMessage(f.status), isRead |-> FALSE, createdAt |-> now]

\* new Notification({...}) of updateOrderStatus; order is the document the
\* request read.
StatusNotification(r, f) ==
  [id |-> <<"us", r>>, idSender |-> f.userId,
   idReceiver |-> orders[f.orderId].idBuyer, type |-> "order_status",
   message |-> StatusMessage(f.status), isRead |-> FALSE, createdAt |-> now]

\* io.to(`client_${order.idBuyer}`).emit("orderStatusUpdate", {...})
StatusEvent(r, f) ==
  [room |-> <<"client", orders[f.orderId].idBuyer>>, event |-> "orderStatusUpdate",
   orderId |-> f.orderId, from |-> <<"us", r>>]

\* await notification.save(), then the emit and the 200 answer.
UsNotify(r) ==
  /\ us[r].pc = "notify"
  /\ \/ /\ notifications' = Append(notifications, StatusNotification(r, us[r]))
        /\ emitted' = IF io THEN Append(emitted, StatusEvent(r, us[r])) ELSE emitted
        /\ delivered' = IF io THEN Deliver(StatusEvent(r, us[r])) ELSE delivered
        /\ us' = [us EXCEPT ![r] = AnswerAfterEmit(@, 200, "updated")]
     \/ /\ us' = [us EXCEPT ![r] = Respond(@, 500, "internal")]
        /\ UNCHANGED <<notifications, emitted, delivered>>
  /\ UNCHANGED <<users, products, orders, io, co, nresp,
                accountVars, paymentVars, queryVars, registerVars, docVars,
                resetVars, sockets, cp>>

\* ------------------------------------------------- notification handlers

\* res.status(code).json(...) of a notification handler.
Answer(op, userId, code) == [op |-> op, userId |-> userId, code |-> code]

\* A variant whose filter leaves the receiver out.
UpdateManyEveryone(userId) ==
  [k \in DOMAIN notifications |->
     IF ~notifications[k].isRead
     THEN [notifications[k] EXCEPT !.isRead = TRUE]
     ELSE notifications[k]]

\* Notification.updateMany({ idReceiver: userId, isRead: false }, { isRead: true })
UpdateManyRead(userId) ==
  [k \in DOMAIN notifications |->
     IF notifications[k].idReceiver = userId /\ ~notifications[k].isRead
     THEN [notifications[k] EXCEPT !.isRead = TRUE]
     ELSE notifications[k]]

\* markAllAsRead: one updateMany, which happens or throws.
MarkAllAsRead ==
  \E userId \in {NoUser} \cup UserIds :
    /\ \/ /\ userId = NoUser
          /\ nresp' = Answer("markAllAsRead", userId, 401)
          /\ UNCHANGED notifications
       \/ /\ userId # NoUser
          /\ notifications' = UpdateManyRead(userId)
          /\ nresp' = Answer("markAllAsRead", userId, 200)
       \/ /\ userId # NoUser
          /\ nresp' = Answer("markAllAsRead", userId, 500)
          /\ UNCHANGED notifications
    /\ UNCHANGED <<users, products, orders, emitted, io, co, us,
                  accountVars, paymentVars, queryVars, moreVars>>

\* req.params.notificationId: the k-th notification stored, or an id of none.
NotificationIdInputs == 0..MaxNotifs

\* markAsRead: Notification.findById, the receiver check, isRead = true and
\* notification.save().  A notification is never deleted and its receiver
\* never changes, so the read and the write are taken in one step.
MarkAsRead ==
  \E userId \in {NoUser} \cup UserIds, n \in NotificationIdInputs :
    /\ IF userId = NoUser
       THEN /\ nresp' = Answer("markAsRead", userId, 401)
            /\ UNCHANGED notifications
       ELSE IF n \notin DOMAIN notifications
       THEN /\ nresp' = Answer("markAsRead", userId, 404)
            /\ UNCHANGED notifications
       ELSE IF notifications[n].idReceiver # userId
       THEN /\ nresp' = Answer("markAsRead", userId, 403)
            /\ UNCHANGED notifications
       ELSE \/ /\ notifications' = [notifications EXCEPT ![n].isRead = TRUE]
               /\ nresp' = Answer("markAsRead", userId, 200)
            \/ /\ nresp' = Answer("markAsRead", userId, 500)
               /\ UNCHANGED notifications
    /\ UNCHANGED <<users, products, orders, emitted, io, co, us,
                  accountVars, paymentVars, queryVars, moreVars>>

\* ------------------------------------------------------------------- login

AdminIds == {"a1"}

\* The login requests in flight together, numbered as they arrive.
LgReqs == {1, 2}

\* Subscriptions stored when the logins start.
MaxSubs == 2
\* The last instant of the clock.
MaxNow == 3

NoEmail == "none"
NoToken == [id |-> NoUser, role |-> "none"]
NoRefreshToken == <<"none", 0>>
NoSub == 0

\* req.body: no email; the address of nobody; the address of client c1 or of
\* supplier s1 (the stored address is the user's id in lower case) with the
\* user's password or, for c1, with another one.
LoginBodies ==
  {[email |-> NoEmail, password |-> "wrong"],
   [email |-> "nobody", password |-> "right"],
   [email |-> "C1", password |-> "right"],
   [email |-> "C1", password |-> "wrong"],
   [email |-> "s1", password |-> "right"]}

\* email.toLowerCase()
ToLowerCase(email) ==
  IF email = "C1" THEN "c1" ELSE IF email = "New" THEN "new" ELSE email

LgIdle ==
  [pc |-> "idle", email |-> NoEmail, password |-> "wrong", user |-> NoUser,
   status |-> FALSE, sub |-> NoSub, at |-> 0, repeatOf |-> {}, code |-> 0,
   msg |-> "none",
   token |-> NoToken, refreshToken |-> NoRefreshToken]

\* loginSchema.validate(req.body), up to User.findOne.
LgBeginFrame(email, password) ==
  LET f == [LgIdle EXCEPT !.email = email, !.password = password]
  IN IF email = NoEmail THEN Respond(f, 400, "validation_error")
     ELSE [f EXCEPT !.pc = "findUser"]

\* The denials for a subscription already answered to a login that sent what
\* this one sends: the request repeats that login.
DeniedBefore(email, password) ==
  {lg[q].msg : q \in {q \in LgReqs :
                        /\ lg[q].pc = "done"
                        /\ lg[q].code = 403
                        /\ lg[q].msg \in {"subscription_expired", "no_subscription"}
                        /\ lg[q].email = email
                        /\ lg[q].password = password}}

LgBegin(r) ==
  /\ lg[r].pc = "idle"
  /\ \A q \in LgReqs : q < r => lg[q].pc # "idle"
  /\ \E body \in LoginBodies :
       lg' = [lg EXCEPT ![r] =
                [LgBeginFrame(body.email, body.password) EXCEPT
                   !.repeatOf = DeniedBefore(body.email, body.password)]]
  /\ UNCHANGED <<users, products, orders, notifications, emitted, io, co, us, nresp,
                abonnements, refreshTokens, now, ad, paymentVars, queryVars, moreVars>>

\* A variant that asks a subscription of clients alone.
NeedsSubscriptionClientOnly(role) == role = "client"

\* user.role === "client" || user.role === "supplier"
NeedsSubscription(role) == role = "client" \/ role = "supplier"

\* A variant that lets a user whose status is false go on to the
\* subscription check.
AfterFindOneUserNoStatus(f) ==
  LET id == ToLowerCase(f.email)
  IN IF id \notin DOMAIN users THEN Respond(f, 401, "invalid_credentials")
     ELSE IF f.password # "right" THEN Respond(f, 401, "invalid_credentials")
     ELSE LET g == [f EXCEPT !.user = id, !.status = users[id].status]
          IN IF NeedsSubscription(users[id].role)
             THEN [g EXCEPT !.pc = "findSubscription"]
             ELSE [g EXCEPT !.pc = "deleteTokens"]

\* User.findOne({email: email.toLowerCase()}) resolves; bcrypt.compare, which
\* reads and writes nothing stored, and the status check run in the same step.
AfterFindOneUser(f) ==
  LET id == ToLowerCase(f.email)
  IN IF id \notin DOMAIN users THEN Respond(f, 401, "invalid_credentials")
     ELSE IF f.password # "right" THEN Respond(f, 401, "invalid_credentials")
     ELSE LET g == [f EXCEPT !.user = id, !.status = users[id].status]
          IN IF NeedsSubscription(users[id].role) /\ ~users[id].status
             THEN Respond(g, 403, "account_not_activated")
             ELSE IF NeedsSubscription(users[id].role) /\ users[id].status
                  THEN [g EXCEPT !.pc = "findSubscription"]
                  ELSE [g EXCEPT !.pc = "deleteTokens"]

LgFindUser(r) ==
  /\ lg[r].pc = "findUser"
  /\ lg' = [lg EXCEPT ![r] = AfterFindOneUser(lg[r])]
  /\ UNCHANGED <<users, products, orders, notifications, emitted, io, co, us, nresp,
                abonnements, refreshTokens, now, ad, paymentVars, queryVars, moreVars>>

\* Abonnement.findOne({id_user, status: true}): the first match in the
\* collection's order, or none.
ActiveOf(id) ==
  {k \in 1..Len(abonnements) :
     abonnements[k].id_user = id /\ abonnements[k].status}

FindOneActive(id) ==
  IF ActiveOf(id) = {} THEN NoSub
  ELSE CHOOSE k \in ActiveOf(id) : \A j \in ActiveOf(id) : k <= j

\* A variant with the comparison turned round.
ExpiredInverted(subscription, date) == subscription.end > date

\* subscription.end < now
Expired(subscription, date) == subscription.end < date

\* Abonnement.findOne resolves: the branch on the subscription found.
AfterFindOneSubscription(f) ==
  LET k == FindOneActive(f.user)
  IN IF k # NoSub
     THEN IF Expired(abonnements[k], now)
          THEN [f EXCEPT !.sub = k, !.at = now, !.pc = "saveSubscription"]
          ELSE [f EXCEPT !.sub = k, !.at = now, !.pc = "deleteTokens"]
     ELSE [f EXCEPT !.pc = "saveUser", !.msg = "no_subscription"]

LgFindSubscription(r) ==
  /\ lg[r].pc = "findSubscription"
  /\ lg' = [lg EXCEPT ![r] = AfterFindOneSubscription(lg[r])]
  /\ UNCHANGED <<users, products, orders, notifications, emitted, io, co, us, nresp,
                abonnements, refreshTokens, now, ad, paymentVars, queryVars, moreVars>>

\* The validator of AbonnementSchema.end, run by every save of a document.
EndAfterStart(subscription) == subscription.end > subscription.start

\* subscription.status = false; await subscription.save(): the write of the
\* modified path, or a throw (a failed validation or a failed write).
LgSaveSubscription(r) ==
  /\ lg[r].pc = "saveSubscription"
  /\ \/ /\ EndAfterStart(abonnements[lg[r].sub])
        /\ abonnements' = [abonnements EXCEPT ![lg[r].sub].status = FALSE]
        /\ lg' = [lg EXCEPT ![r] =
                    [@ EXCEPT !.pc = "saveUser", !.msg = "subscription_expired"]]
     \/ /\ lg' = [lg EXCEPT ![r] = Respond(@, 500, "internal")]
        /\ UNCHANGED abonnements
  /\ UNCHANGED <<users, products, orders, notifications, emitted, io, co, us, nresp,
                refreshTokens, now, ad, paymentVars, queryVars, moreVars>>

\* user.status = false; await user.save(); then the 403 of the branch.
LgSaveUser(r) ==
  /\ lg[r].pc = "saveUser"
  /\ \/ /\ users' = [users EXCEPT ![lg[r].user].status = FALSE]
        /\ lg' = [lg EXCEPT ![r] = Respond(@, 403, @.msg)]
     \/ /\ lg' = [lg EXCEPT ![r] = Respond(@, 500, "internal")]
        /\ UNCHANGED users
  /\ UNCHANGED <<products, orders, notifications, emitted, io, co, us, nresp,
                abonnements, refreshTokens, now, ad, paymentVars, queryVars, moreVars>>

\* await RefreshToken.deleteMany({id_user: user._id})
LgDeleteTokens(r) ==
  /\ lg[r].pc = "deleteTokens"
  /\ \/ /\ refreshTokens' = {t \in refreshTokens : t.id_user # lg[r].user}
        /\ lg' = [lg EXCEPT ![r] = [@ EXCEPT !.pc = "saveToken"]]
     \/ /\ lg' = [lg EXCEPT ![r] = Respond(@, 500, "internal")]
        /\ UNCHANGED refreshTokens
  /\ UNCHANGED <<users, products, orders, notifications, emitted, io, co, us, nresp,
                abonnements, now, ad, paymentVars, queryVars, moreVars>>

\* jwt.sign({id, email, role}, ...)
SignToken(id) == [id |-> id, role |-> users[id].role]

\* await refreshToken.save(); then the 200 answer with both tokens.
LgSaveToken(r) ==
  /\ lg[r].pc = "saveToken"
  /\ \/ /\ refreshTokens' =
             refreshTokens \cup {[id_user |-> lg[r].user, token |-> <<"rt", r>>]}
        /\ lg' = [lg EXCEPT ![r] =
                    Respond([@ EXCEPT !.token = SignToken(lg[r].user),
                                      !.refreshToken = <<"rt", r>>],
                            200, "login_successful")]
     \/ /\ lg' = [lg EXCEPT ![r] = Respond(@, 500, "internal")]
        /\ UNCHANGED refreshTokens
  /\ UNCHANGED <<users, products, orders, notifications, emitted, io, co, us, nresp,
                abonnements, now, ad, paymentVars, queryVars, moreVars>>

\* The answer has been sent: the client may send its next login.
LgClose(r) ==
  /\ lg[r].pc = "done"
  /\ \E q \in LgReqs : q # r /\ lg[q].pc = "done"
  /\ lg' = [lg EXCEPT ![r] = LgIdle]
  /\ UNCHANGED <<users, products, orders, notifications, emitted, io, co, us, nresp,
                abonnements, refreshTokens, now, ad, paymentVars, queryVars, moreVars>>

\* Time passes.
Tick ==
  /\ now < MaxNow
  /\ now' = now + 1
  /\ UNCHANGED <<users, products, orders, notifications, emitted, io, co, us, nresp,
                abonnements, refreshTokens, lg, ad, paymentVars, queryVars, moreVars>>

\* ------------------------------------ createSubscription, updateSubscription

\* The requests of the admin's subscription handlers, numbered as they arrive.
AdReqs == {1, 2}

NoDate == -1
\* The dates a body may carry for start and end.
DateInputs == {2, 4, 6}
\* req.params.subscriptionId: a stored subscription, or the id of none.
SubscriptionIdInputs == {1, 2, 9}

NoDocument == [id_user |-> NoUser, start |-> NoDate, end |-> NoDate, status |-> FALSE]

AdIdle ==
  [pc |-> "idle", op |-> "none", userId |-> NoUser, subscriptionId |-> NoSub,
   document |-> NoDocument, modified |-> {}, code |-> 0, msg |-> "none"]

\* The request arrives at createSubscription or updateSubscription with the
\* identity the gate has set; the code up to User.findById(userId).
AdBeginFrame(op, userId, subscriptionId) ==
  IF userId = NoUser THEN Respond([AdIdle EXCEPT !.op = op], 401, "unauthorized")
  ELSE [AdIdle EXCEPT !.op = op, !.userId = userId, !.pc = "findAdmin",
                      !.subscriptionId = IF op = "update" THEN subscriptionId ELSE NoSub]

AdBegin(r) ==
  /\ ad[r].pc = "idle"
  /\ \A q \in AdReqs : q < r => ad[q].pc # "idle"
  /\ \E op \in {"create", "update"}, userId \in {NoUser, "a1", "c1"},
        subscriptionId \in SubscriptionIdInputs :
       ad' = [ad EXCEPT ![r] = AdBeginFrame(op, userId, subscriptionId)]
  /\ UNCHANGED <<users, products, orders, notifications, emitted, io, co, us, nresp,
                abonnements, refreshTokens, now, lg, paymentVars, queryVars, moreVars>>

\* What createSubscription's body may carry (type and price are left out):
\* the user and the two dates, a date possibly missing.
CreateBodies ==
  [id_user : {"c1", "nobody"}, start : DateInputs \cup {NoDate},
   end : DateInputs \cup {NoDate}]

\* subscriptionSchema.validate of createSubscription: both dates required,
\* end: Joi.date().greater(Joi.ref("start")).
CreateSchemaError(body) ==
  body.start = NoDate \/ body.end = NoDate \/ ~(body.end > body.start)

\* User.findById(userId) resolves in createSubscription; the body is read
\* here for the first time.
AfterFindAdminCreate(f, body) ==
  IF f.userId \notin DOMAIN users \/ users[f.userId].role # "admin"
  THEN Respond(f, 403, "only_admins")
  ELSE IF CreateSchemaError(body) THEN Respond(f, 400, "validation_error")
  ELSE [f EXCEPT !.pc = "findTarget",
                 !.document = [id_user |-> body.id_user, start |-> body.start,
                               end |-> body.end, status |-> TRUE]]

\* User.findById(userId) resolves in updateSubscription.
AfterFindAdminUpdate(f) ==
  IF f.userId \notin DOMAIN users \/ users[f.userId].role # "admin"
  THEN Respond(f, 403, "only_admins")
  ELSE [f EXCEPT !.pc = "findSubscription"]

AdFindAdmin(r) ==
  /\ ad[r].pc = "findAdmin"
  /\ \/ /\ ad[r].op = "create"
        /\ \E body \in CreateBodies :
             ad' = [ad EXCEPT ![r] = AfterFindAdminCreate(ad[r], body)]
     \/ /\ ad[r].op = "update"
        /\ ad' = [ad EXCEPT ![r] = AfterFindAdminUpdate(ad[r])]
  /\ UNCHANGED <<users, products, orders, notifications, emitted, io, co, us, nresp,
                abonnements, refreshTokens, now, lg, paymentVars, queryVars, moreVars>>

\* User.findById(id_user) resolves: the target of the new subscription.
AdFindTarget(r) ==
  /\ ad[r].pc = "findTarget"
  /\ ad' = [ad EXCEPT ![r] =
              IF @.document.id_user \notin DOMAIN users
              THEN Respond(@, 404, "user_not_found")
              ELSE [@ EXCEPT !.pc = "insert"]]
  /\ UNCHANGED <<users, products, orders, notifications, emitted, io, co, us, nresp,
                abonnements, refreshTokens, now, lg, paymentVars, queryVars, moreVars>>

\* await newSubscription.save(): validation and the insert, or a throw.
AdInsert(r) ==
  /\ ad[r].pc = "insert"
  /\ \/ /\ EndAfterStart(ad[r].document)
        /\ abonnements' = Append(abonnements, ad[r].document)
        /\ ad' = [ad EXCEPT ![r] = [@ EXCEPT !.pc = "saveTarget"]]
     \/ /\ ad' = [ad EXCEPT ![r] = Respond(@, 500, "internal")]
        /\ UNCHANGED abonnements
  /\ UNCHANGED <<users, products, orders, notifications, emitted, io, co, us, nresp,
                refreshTokens, now, lg, paymentVars, queryVars, moreVars>>

\* targetUser.status = true; await targetUser.save(); the populate is a read
\* for the answer.
AdSaveTarget(r) ==
  /\ ad[r].pc = "saveTarget"
  /\ \/ /\ users' = [users EXCEPT ![ad[r].document.id_user].status = TRUE]
        /\ ad' = [ad EXCEPT ![r] = Respond(@, 201, "created")]
     \/ /\ ad' = [ad EXCEPT ![r] = Respond(@, 500, "internal")]
        /\ UNCHANGED users
  /\ UNCHANGED <<products, orders, notifications, emitted, io, co, us, nresp,
                abonnements, refreshTokens, now, lg, paymentVars, queryVars, moreVars>>

\* What updateSubscription's body may carry: each date optional.
UpdateBodies == [start : DateInputs \cup {NoDate}, end : DateInputs \cup {NoDate}]

\* The paths an assignment marks modified: those whose value has changed.
ModifiedPaths(old, new) ==
  {path \in {"start", "end"} :
     IF path = "start" THEN old.start # new.start ELSE old.end # new.end}

\* The assignments of updateSubscription to the document it has read (its
\* schema takes every body of UpdateBodies), up to subscription.save().
ApplyUpdate(f, subscription, body) ==
  LET newStartDate == IF body.start # NoDate THEN body.start ELSE subscription.start
      document == [subscription EXCEPT
                     !.start = newStartDate,
                     !.end = IF body.end # NoDate THEN body.end ELSE @]
  IN IF body.end # NoDate /\ body.end <= newStartDate
     THEN Respond(f, 400, "end_before_start")
     ELSE [f EXCEPT !.pc = "save", !.document = document,
                    !.modified = ModifiedPaths(subscription, document)]

\* Abonnement.findById(subscriptionId) resolves; the body is read here for the
\* first time.
AfterFindSubscription(f, body) ==
  IF f.subscriptionId \notin 1..Len(abonnements)
  THEN Respond(f, 404, "subscription_not_found")
  ELSE IF abonnements[f.subscriptionId].end < now
       THEN Respond(f, 400, "ended_subscription")
       ELSE ApplyUpdate(f, abonnements[f.subscriptionId], body)

AdFindSubscription(r) ==
  /\ ad[r].pc = "findSubscription"
  /\ \E body \in UpdateBodies :
       ad' = [ad EXCEPT ![r] = AfterFindSubscription(ad[r], body)]
  /\ UNCHANGED <<users, products, orders, notifications, emitted, io, co, us, nresp,
                abonnements, refreshTokens, now, lg, paymentVars, queryVars, moreVars>>

\* The update a save of a read document sends: $set of its modified paths.
SetModified(stored, document, modified) ==
  [stored EXCEPT
     !.start = IF "start" \in modified THEN document.start ELSE @,
     !.end = IF "end" \in modified THEN document.end ELSE @]

\* The validation save runs on the document in memory before it writes.
SaveValidates(document) == EndAfterStart(document)

\* await subscription.save() of updateSubscription: validation and the write,
\* or a throw; the populate is a read for the answer.
AdSave(r) ==
  /\ ad[r].pc = "save"
  /\ \/ /\ SaveValidates(ad[r].document)
        /\ abonnements' =
             [abonnements EXCEPT ![ad[r].subscriptionId] =
                SetModified(@, ad[r].document, ad[r].modified)]
        /\ ad' = [ad EXCEPT ![r] = Respond(@, 200, "updated")]
     \/ /\ ad' = [ad EXCEPT ![r] = Respond(@, 500, "internal")]
        /\ UNCHANGED abonnements
  /\ UNCHANGED <<users, products, orders, notifications, emitted, io, co, us, nresp,
                refreshTokens, now, lg, paymentVars, queryVars, moreVars>>

\* ----------------------------------------------------------- createPayment

\* The createPayment requests in flight together, numbered as they arrive.
PayReqs == {1, 2}

\* Amounts of money are counted in thousandths of a dinar.
Milli(amount) == amount * 1000
\* totalDiff > 0.01
Tolerance == 10

\* A number: a value, or NaN.
NaN == [nan |-> TRUE, value |-> 0]
Num(value) == [nan |-> FALSE, value |-> value]
\* A missing id_commande.
NoCommande == 0
NoTotal == [type |-> "undefined", text |-> "", value |-> 0]

\* req.body.total: missing, a string (a multipart field), or a number.
TotalInputs ==
  {NoTotal,
   [type |-> "string", text |-> "abc", value |-> 0],
   [type |-> "string", text |-> "5abc", value |-> 0],
   [type |-> "string", text |-> "4.989", value |-> 0],
   [type |-> "string", text |-> "5.01", value |-> 0],
   [type |-> "number", text |-> "", value |-> 5011],
   [type |-> "number", text |-> "", value |-> 6000]}

\* parseFloat(text): the number the text starts with, NaN when it starts
\* with none.
ParseFloat(text) ==
  CASE text = "5abc" -> Num(5000)
    [] text = "4.989" -> Num(4989)
    [] text = "5.01" -> Num(5010)
    [] OTHER -> NaN

\* typeof total === "string" ? parseFloat(total) : Number(total)
PaymentTotal(total) ==
  IF total.type = "string" THEN ParseFloat(total.text) ELSE Num(total.value)

\* Math.abs(commandeTotal - paymentTotal)
TotalDiff(commandeTotal, paymentTotal) ==
  IF commandeTotal >= paymentTotal THEN commandeTotal - paymentTotal
  ELSE paymentTotal - commandeTotal

PayIdle ==
  [pc |-> "idle", userId |-> NoUser, id_commande |-> NoCommande, total |-> NoTotal,
   paymentTotal |-> 0, file |-> FALSE, commande |-> NoCommande, paidAtArrival |-> FALSE,
   code |-> 0, msg |-> "none"]

\* Payment.findOne({id_commande})
PaymentsOf(id_commande) ==
  {k \in 1..Len(payments) : payments[k].id_commande = id_commande}

\* The request arrives with the identity the gates have set; the code up to
\* Commande.findById.
PayBeginFrame(userId, id_commande, total, file) ==
  LET f == [PayIdle EXCEPT !.userId = userId, !.id_commande = id_commande,
                           !.total = total, !.file = file]
  IN IF userId = NoUser THEN Respond(PayIdle, 401, "unauthorized")
     ELSE IF id_commande = NoCommande \/ total.type = "undefined"
          THEN Respond(f, 400, "commande_and_total_required")
     ELSE IF PaymentTotal(total).nan THEN Respond(f, 400, "invalid_total")
     ELSE IF ~file THEN Respond(f, 400, "image_required")
     ELSE [f EXCEPT !.pc = "findCommande", !.paymentTotal = PaymentTotal(total).value]

PayBegin(r) ==
  /\ pay[r].pc = "idle"
  /\ \A q \in PayReqs : q < r => pay[q].pc # "idle"
  /\ \E userId \in {NoUser, "c1", "c2"}, id_commande \in {NoCommande, 1, 2, 9},
        total \in TotalInputs, file \in BOOLEAN :
       pay' = [pay EXCEPT ![r] =
                 [PayBeginFrame(userId, id_commande, total, file) EXCEPT
                    !.paidAtArrival = PaymentsOf(id_commande) # {}]]
  /\ UNCHANGED <<users, products, orders, notifications, emitted, io, co, us, nresp,
                accountVars, payments, queryVars, moreVars>>

\* A variant without the check of the buyer.
AfterFindCommandeAnyone(f) ==
  IF f.id_commande \notin DOMAIN orders THEN Respond(f, 404, "commande_not_found")
  ELSE [f EXCEPT !.pc = "findPayment", !.commande = f.id_commande]

\* Commande.findById resolves: the order must exist and be the caller's.
AfterFindCommande(f) ==
  IF f.id_commande \notin DOMAIN orders THEN Respond(f, 404, "commande_not_found")
  ELSE IF orders[f.id_commande].idBuyer # f.userId
       THEN Respond(f, 403, "own_orders_only")
       ELSE [f EXCEPT !.pc = "findPayment", !.commande = f.id_commande]

PayFindCommande(r) ==
  /\ pay[r].pc = "findCommande"
  /\ pay' = [pay EXCEPT ![r] = AfterFindCommande(pay[r])]
  /\ UNCHANGED <<users, products, orders, notifications, emitted, io, co, us, nresp,
                accountVars, payments, queryVars, moreVars>>

\* A variant that compares the totals without the absolute value.
TotalMismatchSigned(commandeTotal, paymentTotal) ==
  commandeTotal - paymentTotal > Tolerance

\* totalDiff > 0.01, on the total of the order read at Commande.findById.
TotalMismatch(commandeTotal, paymentTotal) ==
  TotalDiff(commandeTotal, paymentTotal) > Tolerance

\* Payment.findOne resolves: no payment yet, and the totals match.
AfterFindPayment(f) ==
  IF PaymentsOf(f.id_commande) # {} THEN Respond(f, 400, "payment_exists")
  ELSE IF TotalMismatch(Milli(orders[f.commande].total), f.paymentTotal)
       THEN Respond(f, 400, "total_mismatch")
       ELSE [f EXCEPT !.pc = "save"]

PayFindPayment(r) ==
  /\ pay[r].pc = "findPayment"
  /\ pay' = [pay EXCEPT ![r] = AfterFindPayment(pay[r])]
  /\ UNCHANGED <<users, products, orders, notifications, emitted, io, co, us, nresp,
                accountVars, payments, queryVars, moreVars>>

\* new Payment({id_commande, id_owner, total, image})
NewPayment(r, f) ==
  [id |-> r, id_commande |-> f.commande, id_owner |-> f.userId,
   total |-> f.paymentTotal]

\* A variant of the collection without the unique index.
InsertAllowedAlways(payment) == payment.total >= 0

\* What the insert needs: the schema's total >= 0 and the unique index on
\* id_commande.
InsertAllowed(payment) ==
  payment.total >= 0 /\ PaymentsOf(payment.id_commande) = {}

\* await payment.save(): the insert, or a throw (validation, a duplicate key,
\* a failed write) that the catch answers.
PaySave(r) ==
  /\ pay[r].pc = "save"
  /\ \/ /\ InsertAllowed(NewPayment(r, pay[r]))
        /\ payments' = Append(payments, NewPayment(r, pay[r]))
        /\ pay' = [pay EXCEPT ![r] = Respond(@, 201, "payment_created")]
     \/ /\ pay' = [pay EXCEPT ![r] = Respond(@, 500, "internal")]
        /\ UNCHANGED payments
  /\ UNCHANGED <<users, products, orders, notifications, emitted, io, co, us, nresp,
                accountVars, queryVars, moreVars>>

\* -------------------------------------------- updateProduct, deleteProduct

\* The requests of the supplier's product handlers.
PuReqs == {1, 2}

NoName == "undefined"
NoNumber == -1

\* What updateProduct's body may carry (category, deliveryTime, brand,
\* productType and the files are left out): a name, absent or new; a purchase
\* price, absent or new; a selling price, absent or new; a quantity, absent
\* or new.
ProductBodies ==
  [name : {NoName, "renamed"}, purchasePrice : {NoNumber, 4},
   sellingPrice : {NoNumber, 1, 3}, quantity : {NoNumber, 5}]

NoProduct ==
  [name |-> NoName, purchasePrice |-> 0, sellingPrice |-> 0, quantity |-> 0,
   supplierId |-> NoSupplier]

PuIdle ==
  [pc |-> "idle", op |-> "none", userId |-> NoUser, id |-> NoId,
   document |-> NoProduct, modified |-> {}, code |-> 0, msg |-> "none"]

\* The request arrives at updateProduct or deleteProduct with the identity the
\* gates have set; the code up to Product.findById(id).
PuBeginFrame(op, userId, id) ==
  IF userId = NoUser THEN Respond([PuIdle EXCEPT !.op = op], 401, "unauthorized")
  ELSE [PuIdle EXCEPT !.op = op, !.userId = userId, !.id = id, !.pc = "findProduct"]

PuBegin(r) ==
  /\ pu[r].pc = "idle"
  /\ \A q \in PuReqs : q < r => pu[q].pc # "idle"
  /\ \E op \in {"update", "delete"}, userId \in {NoUser, "s1", "s2"},
        id \in {"p0", "p1"} :
       pu' = [pu EXCEPT ![r] = PuBeginFrame(op, userId, id)]
  /\ UNCHANGED <<users, products, orders, notifications, emitted, io, co, us, nresp,
                accountVars, paymentVars, gn, gate, moreVars>>

\* The paths of a product the assignments mark modified.
ModifiedProductPaths(old, new) ==
  {path \in {"name", "purchasePrice", "sellingPrice", "quantity"} :
     CASE path = "name" -> old.name # new.name
       [] path = "purchasePrice" -> old.purchasePrice # new.purchasePrice
       [] path = "sellingPrice" -> old.sellingPrice # new.sellingPrice
       [] path = "quantity" -> old.quantity # new.quantity}

\* The validation and the assignments of updateProduct on the product it has
\* read, up to product.save().
ApplyProductUpdate(f, product, body) ==
  LET document == [product EXCEPT
                     !.name = IF body.name # NoName THEN body.name ELSE @,
                     !.purchasePrice =
                        IF body.purchasePrice # NoNumber THEN body.purchasePrice ELSE @,
                     !.sellingPrice =
                        IF body.sellingPrice # NoNumber THEN body.sellingPrice ELSE @,
                     !.quantity =
                        IF body.quantity # NoNumber THEN body.quantity ELSE @]
  IN IF document.sellingPrice < document.purchasePrice
     THEN Respond(f, 400, "selling_below_purchase")
     ELSE [f EXCEPT !.pc = "save", !.document = document,
                    !.modified = ModifiedProductPaths(product, document)]

\* Product.findById resolves: the product must exist and be the caller's; the
\* body of an update is read here for the first time.
AfterFindOwnProduct(f, body) ==
  IF f.id \notin DOMAIN products THEN Respond(f, 404, "product_not_found")
  ELSE IF products[f.id].supplierId # f.userId
       THEN Respond(f, 403, "own_products_only")
       ELSE IF f.op = "delete" THEN [f EXCEPT !.pc = "delete"]
            ELSE ApplyProductUpdate(f, products[f.id], body)

PuFindProduct(r) ==
  /\ pu[r].pc = "findProduct"
  /\ \E body \in ProductBodies :
       pu' = [pu EXCEPT ![r] = AfterFindOwnProduct(pu[r], body)]
  /\ UNCHANGED <<users, products, orders, notifications, emitted, io, co, us, nresp,
                accountVars, paymentVars, gn, gate, moreVars>>

\* The update a save of a read product sends: $set of its modified paths; a
\* product that has been deleted meanwhile is not written.
SetModifiedProduct(f) ==
  IF f.id \notin DOMAIN products THEN products
  ELSE [products EXCEPT ![f.id] =
          [@ EXCEPT
             !.name = IF "name" \in f.modified THEN f.document.name ELSE @,
             !.purchasePrice =
                IF "purchasePrice" \in f.modified THEN f.document.purchasePrice ELSE @,
             !.sellingPrice =
                IF "sellingPrice" \in f.modified THEN f.document.sellingPrice ELSE @,
             !.quantity =
                IF "quantity" \in f.modified THEN f.document.quantity ELSE @]]

\* The schema's rules on the numbers of a product, run by save.
ProductValidates(document) ==
  document.quantity >= 0 /\ document.sellingPrice >= 0 /\ document.purchasePrice >= 0

\* A variant of the save that carries the new name and price into the lines
\* of the orders that hold the product.
PuSaveCascade(r) ==
  /\ pu[r].pc = "save"
  /\ \/ /\ ProductValidates(pu[r].document)
        /\ products' = SetModifiedProduct(pu[r])
        /\ orders' =
             [o \in DOMAIN orders |->
                [orders[o] EXCEPT !.products =
                   [k \in DOMAIN @ |->
                      IF @[k].productId = pu[r].id
                      THEN [@[k] EXCEPT !.name = pu[r].document.name,
                                        !.price = pu[r].document.sellingPrice]
                      ELSE @[k]]]]
        /\ pu' = [pu EXCEPT ![r] = Respond(@, 200, "product_updated")]
     \/ /\ pu' = [pu EXCEPT ![r] = Respond(@, 500, "internal")]
        /\ UNCHANGED <<products, orders>>
  /\ UNCHANGED <<users, notifications, emitted, io, co, us, nresp,
                accountVars, paymentVars, gn, gate, moreVars>>

\* await product.save() of updateProduct: validation and the write, or a throw.
PuSave(r) ==
  /\ pu[r].pc = "save"
  /\ \/ /\ ProductValidates(pu[r].document)
        /\ products' = SetModifiedProduct(pu[r])
        /\ pu' = [pu EXCEPT ![r] = Respond(@, 200, "product_updated")]
     \/ /\ pu' = [pu EXCEPT ![r] = Respond(@, 500, "internal")]
        /\ UNCHANGED products
  /\ UNCHANGED <<users, orders, notifications, emitted, io, co, us, nresp,
                accountVars, paymentVars, gn, gate, moreVars>>

\* await Product.findByIdAndDelete(id)
PuDelete(r) ==
  /\ pu[r].pc = "delete"
  /\ \/ /\ products' = [p \in DOMAIN products \ {pu[r].id} |-> products[p]]
        /\ pu' = [pu EXCEPT ![r] = Respond(@, 200, "product_deleted")]
     \/ /\ pu' = [pu EXCEPT ![r] = Respond(@, 500, "internal")]
        /\ UNCHANGED products
  /\ UNCHANGED <<users, orders, notifications, emitted, io, co, us, nresp,
                accountVars, paymentVars, gn, gate, moreVars>>

\* The answer has been sent: the supplier may send the next request.
PuClose(r) ==
  /\ pu[r].pc = "done"
  /\ pu' = [pu EXCEPT ![r] = PuIdle]
  /\ UNCHANGED <<users, products, orders, notifications, emitted, io, co, us, nresp,
                accountVars, paymentVars, gn, gate, moreVars>>

\* --------------------------------- createProduct, uploadProductsFromExcel

\* The rows of one imported sheet, at most.
MaxRows == 2

\* The prices a createProduct body or a sheet's row may carry (the other
\* fields are valid): selling above, or below, the purchase price.
PriceRows == [purchasePrice : {2, 6}, sellingPrice : {1, 5}]

CpIdle ==
  [pc |-> "idle", op |-> "none", userId |-> NoUser, products |-> <<>>,
   code |-> 0, msg |-> "none"]

\* new Product({...}) of createProduct, and the object a valid row pushes.
NewProduct(userId, row) ==
  [name |-> "created", purchasePrice |-> row.purchasePrice,
   sellingPrice |-> row.sellingPrice, quantity |-> 1, supplierId |-> userId]

\* createProduct up to newProduct.save().
CreateProductFrame(userId, body) ==
  IF userId = NoUser
  THEN Respond([CpIdle EXCEPT !.op = "createProduct"], 401, "unauthorized")
  ELSE IF body.sellingPrice < body.purchasePrice
       THEN Respond([CpIdle EXCEPT !.op = "createProduct", !.userId = userId],
                    400, "selling_below_purchase")
       ELSE [CpIdle EXCEPT !.op = "createProduct", !.userId = userId, !.pc = "save",
                           !.products = <<NewProduct(userId, body)>>]

\* data.forEach of uploadProductsFromExcel: a row whose selling price is below
\* its purchase price is counted as an error, the others are pushed.
ValidRows(rows) == SelectSeq(rows, LAMBDA row : ~(row.sellingPrice < row.purchasePrice))

\* uploadProductsFromExcel up to Product.insertMany(products).
UploadFrame(userId, rows) ==
  LET valid == ValidRows(rows)
      f == [CpIdle EXCEPT !.op = "upload", !.userId = userId]
  IN IF valid = <<>> THEN Respond(f, 400, "no_valid_products")
     ELSE [f EXCEPT !.pc = "insertMany",
                    !.products = [k \in DOMAIN valid |-> NewProduct(userId, valid[k])]]

CpBegin ==
  /\ cp.pc = "idle"
  /\ \/ \E userId \in {NoUser, "s1"}, body \in PriceRows :
          cp' = CreateProductFrame(userId, body)
     \/ \E n \in 1..MaxRows : \E rows \in [1..n -> PriceRows] :
          cp' = UploadFrame("s1", rows)
  /\ UNCHANGED <<users, products, orders, notifications, emitted, io, co, us, nresp,
                accountVars, paymentVars, queryVars, registerVars, docVars,
                resetVars, realtimeVars>>

\* The _id of the k-th product a request inserts.
NewProductId(k) == "new" \o ToString(k)

\* The collection after the first n products of the frame have been inserted.
Inserted(f, n) ==
  [p \in DOMAIN products \cup {NewProductId(k) : k \in 1..n} |->
     IF p \in DOMAIN products THEN products[p]
     ELSE f.products[CHOOSE k \in 1..n : NewProductId(k) = p]]

\* await newProduct.save(): the schema's rules and the insert, or a throw.
CpSave ==
  /\ cp.pc = "save"
  /\ \/ /\ ProductValidates(cp.products[1])
        /\ products' = Inserted(cp, 1)
        /\ cp' = Respond(cp, 201, "product_created")
     \/ /\ cp' = Respond(cp, 500, "internal")
        /\ UNCHANGED products
  /\ UNCHANGED <<users, orders, notifications, emitted, io, co, us, nresp,
                accountVars, paymentVars, queryVars, registerVars, docVars,
                resetVars, realtimeVars>>

\* await Product.insertMany(products): every product is validated and
\* inserted, or the ordered insert throws after some of them.
CpInsertMany ==
  /\ cp.pc = "insertMany"
  /\ \/ /\ \A k \in DOMAIN cp.products : ProductValidates(cp.products[k])
        /\ products' = Inserted(cp, Len(cp.products))
        /\ cp' = Respond(cp, 201, "products_imported")
     \/ \E n \in 0..(Len(cp.products) - 1) :
          /\ products' = Inserted(cp, n)
          /\ cp' = Respond(cp, 500, "internal")
  /\ UNCHANGED <<users, orders, notifications, emitted, io, co, us, nresp,
                accountVars, paymentVars, queryVars, registerVars, docVars,
                resetVars, realtimeVars>>

\* -------------------------------------------------------- getNotifications

\* .limit(50)
Limit == 50

\* req.query.unreadOnly: absent, or one of the two words.
UnreadOnlyInputs == {"undefined", "true", "false"}

GnIdle ==
  [pc |-> "idle", userId |-> NoUser, unreadOnly |-> "undefined",
   notifications |-> <<>>, unreadCount |-> 0, code |-> 0, msg |-> "none"]

\* The request arrives with the identity the gate has set; the code up to
\* Notification.find.
GnBeginFrame(userId, unreadOnly) ==
  IF userId = NoUser THEN Respond(GnIdle, 401, "unauthorized")
  ELSE [GnIdle EXCEPT !.userId = userId, !.unreadOnly = unreadOnly, !.pc = "find"]

GnBegin ==
  /\ gn.pc = "idle"
  /\ \E userId \in {NoUser, "c1", "s1"}, unreadOnly \in UnreadOnlyInputs :
       gn' = GnBeginFrame(userId, unreadOnly)
  /\ UNCHANGED <<users, products, orders, notifications, emitted, io, co, us, nresp,
                accountVars, paymentVars, pu, gate, moreVars>>

\* The filter: {idReceiver: userId}, with isRead: false when unreadOnly is
\* the string "true".
Matches(n, userId, unreadOnly) ==
  /\ n.idReceiver = userId
  /\ unreadOnly = "true" => ~n.isRead

Matching(userId, unreadOnly) ==
  {k \in 1..Len(notifications) : Matches(notifications[k], userId, unreadOnly)}

\* The first of the documents S in the order of sort({createdAt: -1}): one of
\* the newest; among equally new ones the store's order decides, here the
\* order of insertion or its reverse.
Newest(S, ties) ==
  LET top == {k \in S : \A j \in S : notifications[j].createdAt <= notifications[k].createdAt}
  IN IF ties = "insertion" THEN CHOOSE k \in top : \A j \in top : k <= j
     ELSE CHOOSE k \in top : \A j \in top : k >= j

RECURSIVE SortLimit(_, _, _)
\* sort({createdAt: -1}).limit(n) over the documents S.
SortLimit(S, n, ties) ==
  IF S = {} \/ n = 0 THEN <<>>
  ELSE LET k == Newest(S, ties)
       IN <<notifications[k]>> \o SortLimit(S \ {k}, n - 1, ties)

\* Notification.find(filter).sort({createdAt: -1}).limit(50)
Find(userId, unreadOnly, ties) ==
  SortLimit(Matching(userId, unreadOnly), Limit, ties)

GnFind ==
  /\ gn.pc = "find"
  /\ \E ties \in {"insertion", "reverse"} :
       gn' = [gn EXCEPT !.pc = "count",
                        !.notifications = Find(gn.userId, gn.unreadOnly, ties)]
  /\ UNCHANGED <<users, products, orders, notifications, emitted, io, co, us, nresp,
                accountVars, paymentVars, pu, gate, moreVars>>

\* Notification.countDocuments({idReceiver: userId, isRead: false})
CountUnread(userId) ==
  Cardinality({k \in 1..Len(notifications) :
                 notifications[k].idReceiver = userId /\ ~notifications[k].isRead})

\* The count resolves; the 200 answer.
GnCount ==
  /\ gn.pc = "count"
  /\ gn' = Respond([gn EXCEPT !.unreadCount = CountUnread(gn.userId)], 200, "ok")
  /\ UNCHANGED <<users, products, orders, notifications, emitted, io, co, us, nresp,
                accountVars, paymentVars, pu, gate, moreVars>>

\* ------------------------------------------------ the gates of the routes

NoBearer == [present |-> FALSE, signed |-> FALSE, exp |-> 0, id |-> NoUser, role |-> "none"]

\* What the Authorization header may carry: nothing, or a token for a user
\* with that user's role, signed with the server's secret or not, expiring
\* at one instant or at a later one.
BearerInputs ==
  {NoBearer} \cup
  {[present |-> TRUE, signed |-> sg, exp |-> e, id |-> t[1], role |-> t[2]] :
     sg \in BOOLEAN, e \in {2, 3},
     t \in {<<"c1", "client">>, <<"s1", "supplier">>, <<"a1", "admin">>}}

\* jwt.verify(token, secret): an error for a signature of another secret and
\* for a token whose exp has come.
VerifyError(token, date) == ~token.signed \/ date >= token.exp

\* The middleware in front of the handlers, by route: the notification
\* routes, the payment routes, the supplier's product routes, and a role gate
\* used alone.
Chains ==
  {<<"authenticateToken">>, <<"authenticateToken", "requireClient">>,
   <<"authenticateToken", "requireSupplier">>, <<"requireClient">>,
   <<"requireAdmin">>}

GateIdle ==
  [pc |-> "idle", token |-> NoBearer, chain |-> <<>>, k |-> 0, userId |-> NoUser,
   userRole |-> "none", ran |-> FALSE, code |-> 0, msg |-> "none"]

\* The role a gate asks for; authenticateToken asks for none.
RoleOf(name) ==
  CASE name = "requireClient" -> "client"
    [] name = "requireSupplier" -> "supplier"
    [] name = "requireAdmin" -> "admin"
    [] OTHER -> "none"

\* A variant that answers 401 to a token that does not verify.
GateUniform(name, f, date) ==
  IF ~f.token.present THEN Respond(f, 401, "token_required")
  ELSE IF VerifyError(f.token, date) THEN Respond(f, 401, "invalid_or_expired")
  ELSE IF RoleOf(name) # "none" /\ f.token.role # RoleOf(name)
       THEN Respond(f, 403, "role_required")
       ELSE [f EXCEPT !.userId = f.token.id,
                      !.userRole = IF RoleOf(name) # "none" THEN f.token.role ELSE @,
                      !.k = @ + 1]

\* authenticateToken and requireAdmin / requireSupplier / requireClient: the
\* answer of the gate, or next() with the identity set on the request.
Gate(name, f, date) ==
  IF ~f.token.present THEN Respond(f, 401, "token_required")
  ELSE IF VerifyError(f.token, date) THEN Respond(f, 403, "invalid_or_expired")
  ELSE IF RoleOf(name) # "none" /\ f.token.role # RoleOf(name)
       THEN Respond(f, 403, "role_required")
       ELSE [f EXCEPT !.userId = f.token.id,
                      !.userRole = IF RoleOf(name) # "none" THEN f.token.role ELSE @,
                      !.k = @ + 1]

\* A request arrives at a route.
GateArrive ==
  /\ gate.pc = "idle"
  /\ \E token \in BearerInputs, chain \in Chains :
       gate' = [GateIdle EXCEPT !.pc = "gates", !.token = token, !.chain = chain,
                                !.k = 1]
  /\ UNCHANGED <<users, products, orders, notifications, emitted, io, co, us, nresp,
                accountVars, paymentVars, pu, gn, moreVars>>

\* The next gate of the route runs.
GateRun ==
  /\ gate.pc = "gates"
  /\ gate.k <= Len(gate.chain)
  /\ gate' = Gate(gate.chain[gate.k], gate, now)
  /\ UNCHANGED <<users, products, orders, notifications, emitted, io, co, us, nresp,
                accountVars, paymentVars, pu, gn, moreVars>>

\* Every gate has called next(): the handler runs and answers.
GateHandler ==
  /\ gate.pc = "gates"
  /\ gate.k > Len(gate.chain)
  /\ gate' = Respond([gate EXCEPT !.ran = TRUE], 200, "handled")
  /\ UNCHANGED <<users, products, orders, notifications, emitted, io, co, us, nresp,
                accountVars, paymentVars, pu, gn, moreVars>>

\* The answer has been sent: the next request may arrive.
GateClose ==
  /\ gate.pc = "done"
  /\ gate' = GateIdle
  /\ UNCHANGED <<users, products, orders, notifications, emitted, io, co, us, nresp,
                accountVars, paymentVars, pu, gn, moreVars>>

\* -------------------------------- register, registerSupplier, createAdmin

\* The requests that create a user, numbered as they arrive.
RgReqs == {1, 2}

NoRole == "undefined"

\* req.body of the three handlers (a frame keeps the address it has read,
\* in lower case, and whether a user held it then): the address of client c1
\* in capitals, or
\* a new address in two spellings; a role or none; a laboType key or none;
\* the other fields as the schema wants them, or not.
RegisterBodies ==
  [email : {"C1", "new", "New"}, role : {NoRole, "client", "supplier", "admin"},
   laboType : BOOLEAN, valid : BOOLEAN]

RgIdle ==
  [pc |-> "idle", op |-> "none", userId |-> NoUser, email |-> NoEmail,
   role |-> NoRole, existed |-> FALSE, code |-> 0, msg |-> "none",
   token |-> NoToken]

\* The users that hold an address: users of the start (whose address is
\* their id) and users inserted since.
UsersWithEmail(email) ==
  {u \in DOMAIN users : u = email}
    \cup {<<"registered", k>> : k \in {j \in 1..Len(registered) : registered[j].email = email}}

\* The role of the user with an _id, "none" when there is no such user; the
\* _id of an inserted user is its address.
RoleById(id) ==
  IF id \in DOMAIN users THEN users[id].role
  ELSE IF \E k \in 1..Len(registered) : registered[k].email = id
       THEN registered[CHOOSE k \in 1..Len(registered) : registered[k].email = id].role
       ELSE "none"

\* registerSchema.validate(req.body): a key the schema does not name is an
\* error, and laboType is such a key.
RegisterSchemaError(body) == ~body.valid \/ body.laboType

\* value.role: role: Joi.string().valid("client", "supplier", "admin")
\* .default("client").
RegisterRole(body) == IF body.role = NoRole THEN "client" ELSE body.role

\* register up to User.findOne: the schema, then the laboType a client must
\* name.
RegisterBegin(f, body) ==
  LET g == [f EXCEPT !.email = ToLowerCase(body.email),
                     !.existed = UsersWithEmail(ToLowerCase(body.email)) # {}]
  IN IF RegisterSchemaError(body) THEN Respond(g, 400, "validation")
     ELSE IF RegisterRole(body) = "client" /\ ~body.laboType
          THEN Respond(g, 400, "labo_type_required")
          ELSE [g EXCEPT !.pc = "findOne", !.role = RegisterRole(body)]

\* registerSupplier up to User.findOne: the same schema; the role is set to
\* "supplier" whatever the body says.
RegisterSupplierBegin(f, body) ==
  LET g == [f EXCEPT !.email = ToLowerCase(body.email),
                     !.existed = UsersWithEmail(ToLowerCase(body.email)) # {}]
  IN IF RegisterSchemaError(body) THEN Respond(g, 400, "validation")
     ELSE [g EXCEPT !.pc = "findOne", !.role = "supplier"]

\* The request arrives: register and registerSupplier take anyone; createAdmin
\* comes with the identity the gates have set.
RgBegin(r) ==
  /\ rg[r].pc = "idle"
  /\ \A q \in RgReqs : q < r => rg[q].pc # "idle"
  /\ \/ \E body \in RegisterBodies :
          rg' = [rg EXCEPT ![r] = RegisterBegin([RgIdle EXCEPT !.op = "register"], body)]
     \/ \E body \in RegisterBodies :
          rg' = [rg EXCEPT ![r] =
                   RegisterSupplierBegin([RgIdle EXCEPT !.op = "registerSupplier"], body)]
     \/ \E userId \in {NoUser, "c1", "a1", "new"} :
          rg' = [rg EXCEPT ![r] =
                   IF userId = NoUser
                   THEN Respond([RgIdle EXCEPT !.op = "createAdmin"], 401, "unauthorized")
                   ELSE [RgIdle EXCEPT !.op = "createAdmin", !.userId = userId,
                                       !.pc = "findAdmin"]]
  /\ UNCHANGED <<users, products, orders, notifications, emitted, io, co, us, nresp,
                accountVars, paymentVars, queryVars, registered, docVars, resetVars,
                realtimeVars, cp>>

\* adminSchema.validate(req.body): six keys, no role and no laboType.
AdminSchemaError(body) == ~body.valid \/ body.laboType \/ body.role # NoRole

\* createAdmin after User.findById(userId): the caller must be an admin; then
\* the schema, up to User.findOne.
AfterFindCaller(f, body) ==
  LET g == [f EXCEPT !.email = ToLowerCase(body.email),
                     !.existed = UsersWithEmail(ToLowerCase(body.email)) # {}]
  IN IF RoleById(f.userId) # "admin" THEN Respond(f, 403, "admins_only")
     ELSE IF AdminSchemaError(body) THEN Respond(g, 400, "validation")
          ELSE [g EXCEPT !.pc = "findOne", !.role = "admin"]

RgFindAdmin(r) ==
  /\ rg[r].pc = "findAdmin"
  /\ \E body \in RegisterBodies :
       rg' = [rg EXCEPT ![r] = AfterFindCaller(rg[r], body)]
  /\ UNCHANGED <<users, products, orders, notifications, emitted, io, co, us, nresp,
                accountVars, paymentVars, queryVars, registered, docVars, resetVars,
                realtimeVars, cp>>

\* User.findOne({email: email.toLowerCase()}) resolves: 409 for an address
\* that is taken, else on to bcrypt.hash.
AfterFindOneEmail(f) ==
  IF UsersWithEmail(f.email) # {} THEN Respond(f, 409, "email_registered")
  ELSE [f EXCEPT !.pc = "hash"]

RgFindOne(r) ==
  /\ rg[r].pc = "findOne"
  /\ rg' = [rg EXCEPT ![r] = AfterFindOneEmail(rg[r])]
  /\ UNCHANGED <<users, products, orders, notifications, emitted, io, co, us, nresp,
                accountVars, paymentVars, queryVars, registered, docVars, resetVars,
                realtimeVars, cp>>

\* await bcrypt.hash(password, saltRounds) resolves.
RgHash(r) ==
  /\ rg[r].pc = "hash"
  /\ rg' = [rg EXCEPT ![r] = [@ EXCEPT !.pc = "save"]]
  /\ UNCHANGED <<users, products, orders, notifications, emitted, io, co, us, nresp,
                accountVars, paymentVars, queryVars, registered, docVars, resetVars,
                realtimeVars, cp>>

\* new User({...}): status false, the role of the handler.
NewUser(r, f) == [email |-> f.email, role |-> f.role, status |-> FALSE, by |-> r]

\* A variant of the insert without the unique index.
InsertUserAllowedAlways(user) == TRUE

\* The unique index on email: an insert of an address that is taken throws.
InsertUserAllowed(user) == UsersWithEmail(user.email) = {}

\* jwt.sign({id, email, role}) of register and registerSupplier; createAdmin
\* signs nothing.
SignRegistered(f) ==
  IF f.op = "createAdmin" THEN NoToken ELSE [id |-> f.email, role |-> f.role]

\* await newUser.save(): the insert and the 201, or a throw (a duplicate key,
\* a failed write) that the catch answers.
RgSave(r) ==
  /\ rg[r].pc = "save"
  /\ \/ /\ InsertUserAllowed(NewUser(r, rg[r]))
        /\ registered' = Append(registered, NewUser(r, rg[r]))
        /\ rg' = [rg EXCEPT ![r] =
                    Respond([@ EXCEPT !.token = SignRegistered(rg[r])], 201, "created")]
     \/ /\ rg' = [rg EXCEPT ![r] = Respond(@, 500, "internal")]
        /\ UNCHANGED registered
  /\ UNCHANGED <<users, products, orders, notifications, emitted, io, co, us, nresp,
                accountVars, paymentVars, queryVars, docVars, resetVars,
                realtimeVars, cp>>

\* ------------------------------------ uploadDocuments, uploadClientDocuments

DcReqs == {1, 2}

\* The fields of the multipart form that carry a file.
PapierFields == {"Tax_number", "identity", "commercial_register"}

\* A bundle; a document field is TRUE when it holds the path of a file and
\* FALSE when it is undefined.
NoPapier ==
  [id_user |-> NoUser, type |-> "none", Tax_number |-> FALSE, identity |-> FALSE,
   commercial_register |-> FALSE]

DcIdle ==
  [pc |-> "idle", op |-> "none", userId |-> NoUser, files |-> {}, index |-> 0,
   document |-> NoPapier, modified |-> {}, code |-> 0, msg |-> "none"]

\* uploadDocuments up to User.findById: all three files are required.
UploadDocumentsBegin(f) ==
  IF ~(PapierFields \subseteq f.files) THEN Respond(f, 400, "three_documents_required")
  ELSE [f EXCEPT !.pc = "findUser"]

\* uploadClientDocuments up to User.findById: the identity file is required and
\* no other field is accepted.
UploadClientDocumentsBegin(f) ==
  IF "identity" \notin f.files THEN Respond(f, 400, "identity_required")
  ELSE IF f.files \ {"identity"} # {} THEN Respond(f, 400, "unauthorized_fields")
       ELSE [f EXCEPT !.pc = "findUser"]

DcBegin(r) ==
  /\ dc[r].pc = "idle"
  /\ \A q \in DcReqs : q < r => dc[q].pc # "idle"
  /\ \E userId \in {"c1", "s1", "gone"}, files \in SUBSET PapierFields :
       \/ dc' = [dc EXCEPT ![r] =
                   UploadDocumentsBegin(
                     [DcIdle EXCEPT !.op = "uploadDocuments", !.userId = userId,
                                    !.files = files])]
       \/ dc' = [dc EXCEPT ![r] =
                   UploadClientDocumentsBegin(
                     [DcIdle EXCEPT !.op = "uploadClientDocuments",
                                    !.userId = userId, !.files = files])]
  /\ UNCHANGED <<users, products, orders, notifications, emitted, io, co, us, nresp,
                accountVars, paymentVars, queryVars, registerVars, papiers,
                resetVars, realtimeVars, cp>>

\* The role each handler asks of its caller.
UploaderRole(op) == IF op = "uploadDocuments" THEN "supplier" ELSE "client"

\* User.findById(userId) resolves.
AfterFindUploader(f) ==
  IF RoleById(f.userId) = "none" THEN Respond(f, 404, "user_not_found")
  ELSE IF RoleById(f.userId) # UploaderRole(f.op) THEN Respond(f, 403, "wrong_role")
       ELSE [f EXCEPT !.pc = "findPapier"]

DcFindUser(r) ==
  /\ dc[r].pc = "findUser"
  /\ dc' = [dc EXCEPT ![r] = AfterFindUploader(@)]
  /\ UNCHANGED <<users, products, orders, notifications, emitted, io, co, us, nresp,
                accountVars, paymentVars, queryVars, registerVars, papiers,
                resetVars, realtimeVars, cp>>

\* The bundles of a user, by position in the collection.
PapiersOf(userId) == {k \in 1..Len(papiers) : papiers[k].id_user = userId}

\* The assignments of a handler to the bundle it has found, or the fields of
\* the bundle it constructs.
AssignFiles(op, document) ==
  IF op = "uploadDocuments"
  THEN [document EXCEPT !.type = "supplier", !.Tax_number = TRUE,
                        !.identity = TRUE, !.commercial_register = TRUE]
  ELSE [document EXCEPT !.type = "client", !.identity = TRUE]

\* The paths in which two versions of a bundle differ.
ModifiedPapierPaths(old, new) ==
  {path \in {"type"} \cup PapierFields :
     CASE path = "type" -> old.type # new.type
       [] path = "Tax_number" -> old.Tax_number # new.Tax_number
       [] path = "identity" -> old.identity # new.identity
       [] path = "commercial_register" ->
            old.commercial_register # new.commercial_register}

\* Papier.findOne({ id_user: userId }) resolves: the bundle found is assigned
\* the new files, or a new bundle is constructed.
AfterFindPapier(f) ==
  IF PapiersOf(f.userId) # {}
  THEN LET k == CHOOSE i \in PapiersOf(f.userId) :
                  \A j \in PapiersOf(f.userId) : i <= j
           document == AssignFiles(f.op, papiers[k])
       IN [f EXCEPT !.pc = "save", !.index = k, !.document = document,
                    !.modified = ModifiedPapierPaths(papiers[k], document)]
  ELSE [f EXCEPT !.pc = "insert",
                 !.document = AssignFiles(f.op, [NoPapier EXCEPT !.id_user = f.userId])]

DcFindPapier(r) ==
  /\ dc[r].pc = "findPapier"
  /\ dc' = [dc EXCEPT ![r] = AfterFindPapier(@)]
  /\ UNCHANGED <<users, products, orders, notifications, emitted, io, co, us, nresp,
                accountVars, paymentVars, queryVars, registerVars, papiers,
                resetVars, realtimeVars, cp>>

\* PapierSchema.pre("save") throws.
PreSaveThrows(document) ==
  IF document.type = "supplier"
  THEN ~document.Tax_number \/ ~document.identity \/ ~document.commercial_register
  ELSE document.type = "client" /\ ~document.identity

\* PapierSchema.pre("save") on a bundle it does not refuse: the two supplier
\* documents of a client's bundle are cleared.
PreSave(document) ==
  IF document.type = "client"
  THEN [document EXCEPT !.Tax_number = FALSE, !.commercial_register = FALSE]
  ELSE document

\* A variant of the collection without the unique index.
InsertPapierAllowedAlways(document) == TRUE

\* The unique index on id_user.
InsertPapierAllowed(document) == PapiersOf(document.id_user) = {}

\* await newPapier.save(): the hook and the insert, or a throw.
DcInsert(r) ==
  /\ dc[r].pc = "insert"
  /\ \/ /\ ~PreSaveThrows(dc[r].document)
        /\ InsertPapierAllowed(dc[r].document)
        /\ papiers' = Append(papiers, PreSave(dc[r].document))
        /\ dc' = [dc EXCEPT ![r] = Respond(@, 201, "documents_uploaded")]
     \/ /\ dc' = [dc EXCEPT ![r] = Respond(@, 500, "internal")]
        /\ UNCHANGED papiers
  /\ UNCHANGED <<users, products, orders, notifications, emitted, io, co, us, nresp,
                accountVars, paymentVars, queryVars, registerVars,
                resetVars, realtimeVars, cp>>

\* The update a save of a found bundle sends: the paths the handler and the
\* hook have modified.
SetModifiedPapier(f) ==
  LET document == PreSave(f.document)
      modified == f.modified \cup ModifiedPapierPaths(f.document, document)
  IN [papiers EXCEPT ![f.index] =
        [@ EXCEPT
           !.type = IF "type" \in modified THEN document.type ELSE @,
           !.Tax_number = IF "Tax_number" \in modified THEN document.Tax_number ELSE @,
           !.identity = IF "identity" \in modified THEN document.identity ELSE @,
           !.commercial_register =
              IF "commercial_register" \in modified
              THEN document.commercial_register ELSE @]]

\* await existingPapier.save(): the hook and the update, or a throw.
DcSave(r) ==
  /\ dc[r].pc = "save"
  /\ \/ /\ ~PreSaveThrows(dc[r].document)
        /\ papiers' = SetModifiedPapier(dc[r])
        /\ dc' = [dc EXCEPT ![r] = Respond(@, 200, "documents_updated")]
     \/ /\ dc' = [dc EXCEPT ![r] = Respond(@, 500, "internal")]
        /\ UNCHANGED papiers
  /\ UNCHANGED <<users, products, orders, notifications, emitted, io, co, us, nresp,
                accountVars, paymentVars, queryVars, registerVars,
                resetVars, realtimeVars, cp>>

\* ------------------------------------------------------------ resetPassword

RpReqs == {1, 2}

\* No reset token in the body.
NoResetToken == 0

RpIdle ==
  [pc |-> "idle", resetToken |-> NoResetToken, newPassword |-> "none", email |-> NoEmail,
   code |-> 0, msg |-> "none"]

\* The request arrives at resetPassword; the code up to
\* PasswordReset.findById(resetToken).
ResetBegin(resetToken, newPassword) ==
  LET f == [RpIdle EXCEPT !.resetToken = resetToken, !.newPassword = newPassword]
  IN IF resetToken = NoResetToken THEN Respond(f, 400, "token_and_password_required")
     ELSE IF newPassword = "short" THEN Respond(f, 400, "password_too_short")
          ELSE [f EXCEPT !.pc = "findReset"]

RpBegin(r) ==
  /\ rp[r].pc = "idle"
  /\ \A q \in RpReqs : q < r => rp[q].pc # "idle"
  /\ \E resetToken \in {NoResetToken, 1, 9}, newPassword \in {"short", "first", "second"} :
       rp' = [rp EXCEPT ![r] = ResetBegin(resetToken, newPassword)]
  /\ UNCHANGED <<users, products, orders, notifications, emitted, io, co, us, nresp,
                accountVars, paymentVars, queryVars, registerVars, docVars,
                passwords, resets, realtimeVars, cp>>

\* !passwordReset || passwordReset.used || passwordReset.expiresAt < new Date()
ResetRefused(resetToken) ==
  \/ resetToken \notin DOMAIN resets
  \/ resets[resetToken].used
  \/ resets[resetToken].expiresAt < now

\* PasswordReset.findById(resetToken) resolves.
AfterFindReset(f) ==
  IF ResetRefused(f.resetToken) THEN Respond(f, 400, "invalid_or_expired")
  ELSE [f EXCEPT !.pc = "findUser", !.email = resets[f.resetToken].email]

RpFindReset(r) ==
  /\ rp[r].pc = "findReset"
  /\ rp' = [rp EXCEPT ![r] = AfterFindReset(@)]
  /\ UNCHANGED <<users, products, orders, notifications, emitted, io, co, us, nresp,
                accountVars, paymentVars, queryVars, registerVars, docVars,
                passwords, resets, realtimeVars, cp>>

\* User.findOne({ email: passwordReset.email }) resolves.
AfterFindResetUser(f) ==
  IF f.email \notin DOMAIN passwords THEN Respond(f, 404, "user_not_found")
  ELSE [f EXCEPT !.pc = "hash"]

RpFindUser(r) ==
  /\ rp[r].pc = "findUser"
  /\ rp' = [rp EXCEPT ![r] = AfterFindResetUser(@)]
  /\ UNCHANGED <<users, products, orders, notifications, emitted, io, co, us, nresp,
                accountVars, paymentVars, queryVars, registerVars, docVars,
                passwords, resets, realtimeVars, cp>>

\* await bcrypt.hash(newPassword, saltRounds)
RpHash(r) ==
  /\ rp[r].pc = "hash"
  /\ rp' = [rp EXCEPT ![r].pc = "saveUser"]
  /\ UNCHANGED <<users, products, orders, notifications, emitted, io, co, us, nresp,
                accountVars, paymentVars, queryVars, registerVars, docVars,
                passwords, resets, realtimeVars, cp>>

\* await user.save(): the user's password is written, with the token that
\* allowed it, or the save throws.
RpSaveUser(r) ==
  /\ rp[r].pc = "saveUser"
  /\ \/ /\ passwords' =
             [passwords EXCEPT ![rp[r].email] =
                Append(@, [password |-> rp[r].newPassword,
                           resetToken |-> rp[r].resetToken])]
        /\ rp' = [rp EXCEPT ![r].pc = "saveReset"]
     \/ /\ rp' = [rp EXCEPT ![r] = Respond(@, 500, "internal")]
        /\ UNCHANGED passwords
  /\ UNCHANGED <<users, products, orders, notifications, emitted, io, co, us, nresp,
                accountVars, paymentVars, queryVars, registerVars, docVars,
                resets, realtimeVars, cp>>

\* passwordReset.used = true; await passwordReset.save(), or a throw.
RpSaveReset(r) ==
  /\ rp[r].pc = "saveReset"
  /\ \/ /\ resets' = [resets EXCEPT ![rp[r].resetToken].used = TRUE]
        /\ rp' = [rp EXCEPT ![r] = Respond(@, 200, "password_reset")]
     \/ /\ rp' = [rp EXCEPT ![r] = Respond(@, 500, "internal")]
        /\ UNCHANGED resets
  /\ UNCHANGED <<users, products, orders, notifications, emitted, io, co, us, nresp,
                accountVars, paymentVars, queryVars, registerVars, docVars,
                passwords, realtimeVars, cp>>

\* ------------------------------------------------------------------ states

InitUsers ==
  [u \in UserIds |->
     [role |-> IF u \in ClientIds THEN "client" ELSE "supplier", status |-> TRUE]]

InitProducts ==
  [p \in {"p1", "p2", "p3"} |->
     CASE p = "p1" -> [name |-> "n1", purchasePrice |-> 2, sellingPrice |-> 5, quantity |-> 1, supplierId |-> "s1"]
       [] p = "p2" -> [name |-> "n2", purchasePrice |-> 2, sellingPrice |-> 3, quantity |-> 2, supplierId |-> "s1"]
       [] p = "p3" -> [name |-> "n3", purchasePrice |-> 2, sellingPrice |-> 4, quantity |-> 1, supplierId |-> "s2"]]

NoResponse == [op |-> "none", userId |-> NoUser, code |-> 0]

\* No subscription stored and no request of the account handlers in flight.
NoAccounts ==
  /\ abonnements = <<>>
  /\ refreshTokens = {}
  /\ now = 2
  /\ lg = [r \in LgReqs |-> LgIdle]
  /\ ad = [r \in AdReqs |-> AdIdle]

\* No payment stored and no createPayment in flight.
NoPayments ==
  /\ payments = <<>>
  /\ pay = [r \in PayReqs |-> PayIdle]

\* No request of the product handlers, of getNotifications or at a gate.
NoQueries ==
  /\ pu = [r \in PuReqs |-> PuIdle]
  /\ gn = GnIdle
  /\ gate = GateIdle

\* No user inserted since the start and no request that creates one.
NoRegistrations ==
  /\ registered = <<>>
  /\ rg = [r \in RgReqs |-> RgIdle]

\* The password each user registered with, and no reset record.
InitPasswords ==
  [e \in {"c1", "s1"} |-> <<[password |-> "registered", resetToken |-> NoResetToken]>>]

NoResets ==
  /\ passwords = InitPasswords
  /\ resets = <<>>
  /\ rp = [r \in RpReqs |-> RpIdle]

NoMore ==
  /\ NoRegistrations
  /\ papiers = <<>>
  /\ dc = [r \in DcReqs |-> DcIdle]
  /\ NoResets
  /\ sockets = {}
  /\ delivered = <<>>
  /\ cp = CpIdle

Init ==
  /\ NoAccounts /\ NoPayments /\ NoQueries /\ NoMore
  /\ users = InitUsers
  /\ products = InitProducts
  /\ orders = <<>>
  /\ notifications = <<>>
  /\ emitted = <<>>
  /\ io = TRUE
  /\ co = [r \in CoReqs |-> CoIdle]
  /\ us = [r \in UsReqs |-> UsIdle]
  /\ nresp = NoResponse

Next ==
  \E r \in CoReqs :
    \/ CoBegin(r)
    \/ CoFindUser(r)
    \/ CoFindProduct(r)
    \/ CoSaveOrder(r)
    \/ CoDecrement(r)
    \/ CoPopulate(r)
    \/ CoNotify(r)

Spec == Init /\ [][Next]_vars

\* The collections after client c1's createOrder of one p1 has succeeded: the
\* state the updateOrderStatus requests start from.
InitStatus ==
  LET f == [CoIdle EXCEPT
              !.userId = "c1", !.total = 5, !.supplierIds = {"s1"},
              !.processedProducts =
                 <<[productId |-> "p1", name |-> "n1", price |-> 5,
                    quantity |-> 1]>>]
  IN /\ NoAccounts /\ NoPayments /\ NoQueries /\ NoMore
     /\ users = InitUsers
     /\ products = [InitProducts EXCEPT !["p1"].quantity = 0]
     /\ orders = (1 :> NewOrder(f))
     /\ notifications = <<NewOrderNotification(1, f)>>
     /\ emitted = <<NewOrderEvent(1, f)>>
     /\ io = TRUE
     /\ co = [r \in CoReqs |-> CoIdle]
     /\ us = [r \in UsReqs |-> UsIdle]
     /\ nresp = NoResponse

NextStatus ==
  \E r \in UsReqs :
    \/ UsBegin(r)
    \/ UsFindOrder(r)
    \/ UsSaveOrder(r)
    \/ UsNotify(r)

SpecStatus == InitStatus /\ [][NextStatus]_vars

\* The notifications the two order handlers make: a new_order from the client
\* to a supplier, an order_status from a supplier to the client.
NotificationsMade ==
  {[id |-> <<"co", 0>>, idSender |-> "c1", idReceiver |-> s, type |-> "new_order",
    message |-> "Nouvelle commande", isRead |-> FALSE, createdAt |-> 2] :
     s \in SupplierIds}
    \cup
  {[id |-> <<"us", 0>>, idSender |-> s, idReceiver |-> "c1", type |-> "order_status",
    message |-> StatusMessage("on route"), isRead |-> FALSE, createdAt |-> 2] :
     s \in SupplierIds}

\* The notification handlers start from any collection of up to MaxNotifs
\* notifications the order handlers have made, all unread.
InitNotifications ==
  /\ NoAccounts /\ NoPayments /\ NoQueries /\ NoMore
  /\ users = InitUsers
  /\ products = InitProducts
  /\ orders = <<>>
  /\ notifications \in UNION {[1..n -> NotificationsMade] : n \in 0..MaxNotifs}
  /\ emitted = <<>>
  /\ io = TRUE
  /\ co = [r \in CoReqs |-> CoIdle]
  /\ us = [r \in UsReqs |-> UsIdle]
  /\ nresp = NoResponse

NextNotifications == MarkAllAsRead \/ MarkAsRead

SpecNotifications == InitNotifications /\ [][NextNotifications]_vars

\* The users of the account handlers: the clients and suppliers, and an admin.
AccountUsers ==
  [u \in UserIds \cup AdminIds |->
     [role |-> IF u \in AdminIds THEN "admin"
               ELSE IF u \in ClientIds THEN "client" ELSE "supplier",
      status |-> TRUE]]

\* The subscriptions the admin has made for client c1: ending before the
\* logins start or at that instant, marked active or not.
SubscriptionsMade ==
  {[id_user |-> "c1", start |-> 0, end |-> e, status |-> b] :
     e \in {1, 2}, b \in BOOLEAN}

\* The logins start from any collection of up to MaxSubs subscriptions of c1,
\* c1's status true or false; supplier s1 has no subscription.
InitLogin ==
  /\ NoPayments /\ NoQueries /\ NoMore
  /\ users \in {[AccountUsers EXCEPT !["c1"].status = b] : b \in BOOLEAN}
  /\ abonnements \in UNION {[1..n -> SubscriptionsMade] : n \in 0..MaxSubs}
  /\ refreshTokens = {}
  /\ now = 2
  /\ lg = [r \in LgReqs |-> LgIdle]
  /\ ad = [r \in AdReqs |-> AdIdle]
  /\ products = InitProducts
  /\ orders = <<>>
  /\ notifications = <<>>
  /\ emitted = <<>>
  /\ io = TRUE
  /\ co = [r \in CoReqs |-> CoIdle]
  /\ us = [r \in UsReqs |-> UsIdle]
  /\ nresp = NoResponse

NextLogin ==
  \/ \E r \in LgReqs :
       \/ LgBegin(r)
       \/ LgFindUser(r)
       \/ LgFindSubscription(r)
       \/ LgSaveSubscription(r)
       \/ LgSaveUser(r)
       \/ LgDeleteTokens(r)
       \/ LgSaveToken(r)
       \/ LgClose(r)
  \/ Tick

SpecLogin == InitLogin /\ [][NextLogin]_vars

\* The logins after a renewal: client c1, whose status is true, has a
\* subscription that ended at instant 1, still marked active or not, and one
\* that runs until instant 5, stored in either order.
InitRenewal ==
  /\ NoPayments /\ NoQueries /\ NoMore
  /\ users = AccountUsers
  /\ abonnements \in
       {<<[id_user |-> "c1", start |-> 0, end |-> 1, status |-> b],
          [id_user |-> "c1", start |-> 2, end |-> 5, status |-> TRUE]>> : b \in BOOLEAN}
       \cup
       {<<[id_user |-> "c1", start |-> 2, end |-> 5, status |-> TRUE],
          [id_user |-> "c1", start |-> 0, end |-> 1, status |-> b]>> : b \in BOOLEAN}
  /\ refreshTokens = {}
  /\ now = 2
  /\ lg = [r \in LgReqs |-> LgIdle]
  /\ ad = [r \in AdReqs |-> AdIdle]
  /\ products = InitProducts
  /\ orders = <<>>
  /\ notifications = <<>>
  /\ emitted = <<>>
  /\ io = TRUE
  /\ co = [r \in CoReqs |-> CoIdle]
  /\ us = [r \in UsReqs |-> UsIdle]
  /\ nresp = NoResponse

SpecRenewal == InitRenewal /\ [][NextLogin]_vars

\* The admin's handlers start with a running subscription of c1 and an ended
\* one of s1, which a login of s1 has marked inactive.
InitSubscription ==
  /\ NoPayments /\ NoQueries /\ NoMore
  /\ users = [AccountUsers EXCEPT !["s1"].status = FALSE]
  /\ abonnements =
       <<[id_user |-> "c1", start |-> 1, end |-> 5, status |-> TRUE],
         [id_user |-> "s1", start |-> 0, end |-> 1, status |-> FALSE]>>
  /\ refreshTokens = {}
  /\ now = 2
  /\ lg = [r \in LgReqs |-> LgIdle]
  /\ ad = [r \in AdReqs |-> AdIdle]
  /\ products = InitProducts
  /\ orders = <<>>
  /\ notifications = <<>>
  /\ emitted = <<>>
  /\ io = TRUE
  /\ co = [r \in CoReqs |-> CoIdle]
  /\ us = [r \in UsReqs |-> UsIdle]
  /\ nresp = NoResponse

NextSubscription ==
  \/ \E r \in AdReqs :
       \/ AdBegin(r)
       \/ AdFindAdmin(r)
       \/ AdFindTarget(r)
       \/ AdInsert(r)
       \/ AdSaveTarget(r)
       \/ AdFindSubscription(r)
       \/ AdSave(r)
  \/ Tick

SpecSubscription == InitSubscription /\ [][NextSubscription]_vars

\* The users of the payment handlers: a second client beside c1.
PaymentUsers ==
  [u \in UserIds \cup {"c2"} |->
     [role |-> IF u \in SupplierIds THEN "supplier" ELSE "client", status |-> TRUE]]

\* The collections after c1's createOrder of one p1 and c2's createOrder of
\* two p2 have succeeded: the state the createPayment requests start from.
InitPayment ==
  LET f == [CoIdle EXCEPT
              !.userId = "c1", !.total = 5, !.supplierIds = {"s1"},
              !.processedProducts =
                 <<[productId |-> "p1", name |-> "n1", price |-> 5,
                    quantity |-> 1]>>]
      g == [CoIdle EXCEPT
              !.userId = "c2", !.total = 6, !.supplierIds = {"s1"},
              !.processedProducts =
                 <<[productId |-> "p2", name |-> "n2", price |-> 3,
                    quantity |-> 2]>>]
  IN /\ NoAccounts /\ NoQueries /\ NoMore
     /\ users = PaymentUsers
     /\ products = [InitProducts EXCEPT !["p1"].quantity = 0, !["p2"].quantity = 0]
     /\ orders = (1 :> NewOrder(f)) @@ (2 :> NewOrder(g))
     /\ notifications = <<NewOrderNotification(1, f), NewOrderNotification(2, g)>>
     /\ emitted = <<NewOrderEvent(1, f), NewOrderEvent(2, g)>>
     /\ io = TRUE
     /\ co = [r \in CoReqs |-> CoIdle]
     /\ us = [r \in UsReqs |-> UsIdle]
     /\ nresp = NoResponse
     /\ payments = <<>>
     /\ pay = [r \in PayReqs |-> PayIdle]

NextPayment ==
  \E r \in PayReqs :
    \/ PayBegin(r)
    \/ PayFindCommande(r)
    \/ PayFindPayment(r)
    \/ PaySave(r)

SpecPayment == InitPayment /\ [][NextPayment]_vars

\* The product handlers run beside one createOrder: the first createOrder
\* request has come without an identity and has been answered.
InitCatalog ==
  /\ NoAccounts /\ NoPayments /\ NoQueries /\ NoMore
  /\ users = InitUsers
  /\ products = InitProducts
  /\ orders = <<>>
  /\ notifications = <<>>
  /\ emitted = <<>>
  /\ io = TRUE
  /\ co = [r \in CoReqs |->
             IF r = 1 THEN Respond(CoIdle, 401, "unauthorized") ELSE CoIdle]
  /\ us = [r \in UsReqs |-> UsIdle]
  /\ nresp = NoResponse

NextCatalog ==
  \/ \E r \in CoReqs :
       \/ CoBegin(r)
       \/ CoFindUser(r)
       \/ CoFindProduct(r)
       \/ CoSaveOrder(r)
       \/ CoDecrement(r)
       \/ CoPopulate(r)
       \/ CoNotify(r)
  \/ \E r \in {1} :
       \/ PuBegin(r)
       \/ PuFindProduct(r)
       \/ PuSave(r)
       \/ PuDelete(r)
       \/ PuClose(r)

SpecCatalog == InitCatalog /\ [][NextCatalog]_vars

\* The bundle a user has uploaded before.
Uploaded(userId) == PreSave(AssignFiles(IF userId \in ClientIds THEN "uploadClientDocuments" ELSE "uploadDocuments", [NoPapier EXCEPT !.id_user = userId]))

\* The upload handlers start with no bundle stored, or with the bundle of
\* client c1 or of supplier s1.
InitDocuments ==
  /\ NoAccounts /\ NoPayments /\ NoQueries
  /\ NoRegistrations
  /\ papiers \in {<<>>, <<Uploaded("c1")>>, <<Uploaded("s1")>>}
  /\ dc = [r \in DcReqs |-> DcIdle]
  /\ NoResets
  /\ sockets = {}
  /\ delivered = <<>>
  /\ cp = CpIdle
  /\ users = InitUsers
  /\ products = InitProducts
  /\ orders = <<>>
  /\ notifications = <<>>
  /\ emitted = <<>>
  /\ io = TRUE
  /\ co = [r \in CoReqs |-> CoIdle]
  /\ us = [r \in UsReqs |-> UsIdle]
  /\ nresp = NoResponse

NextDocuments ==
  \E r \in DcReqs :
    \/ DcBegin(r)
    \/ DcFindUser(r)
    \/ DcFindPapier(r)
    \/ DcInsert(r)
    \/ DcSave(r)

SpecDocuments == InitDocuments /\ [][NextDocuments]_vars

\* resetPassword starts with the record requestPasswordReset has stored for
\* c1: unused, and expiring at the instant the requests start.
InitReset ==
  /\ NoAccounts /\ NoPayments /\ NoQueries
  /\ NoRegistrations
  /\ papiers = <<>>
  /\ dc = [r \in DcReqs |-> DcIdle]
  /\ passwords = InitPasswords
  /\ resets = <<[email |-> "c1", used |-> FALSE, expiresAt |-> 2]>>
  /\ rp = [r \in RpReqs |-> RpIdle]
  /\ sockets = {}
  /\ delivered = <<>>
  /\ cp = CpIdle
  /\ users = InitUsers
  /\ products = InitProducts
  /\ orders = <<>>
  /\ notifications = <<>>
  /\ emitted = <<>>
  /\ io = TRUE
  /\ co = [r \in CoReqs |-> CoIdle]
  /\ us = [r \in UsReqs |-> UsIdle]
  /\ nresp = NoResponse

NextReset ==
  \/ \E r \in RpReqs :
       \/ RpBegin(r)
       \/ RpFindReset(r)
       \/ RpFindUser(r)
       \/ RpHash(r)
       \/ RpSaveUser(r)
       \/ RpSaveReset(r)
  \/ Tick

SpecReset == InitReset /\ [][NextReset]_vars

\* One createOrder and then one updateOrderStatus, with or without the handle
\* of setSocketIO (the handlers' module starts with io = null), and with any of
\* c1 and s1 connected: the other requests have come without an identity and
\* have been answered.
InitRealtime ==
  /\ NoAccounts /\ NoPayments /\ NoQueries
  /\ NoRegistrations /\ NoResets
  /\ papiers = <<>>
  /\ dc = [r \in DcReqs |-> DcIdle]
  /\ sockets \in SUBSET {"c1", "s1"}
  /\ delivered = <<>>
  /\ cp = CpIdle
  /\ users = InitUsers
  /\ products = InitProducts
  /\ orders = <<>>
  /\ notifications = <<>>
  /\ emitted = <<>>
  /\ io \in BOOLEAN
  /\ co = [r \in CoReqs |->
             IF r = 1 THEN CoIdle ELSE Respond(CoIdle, 401, "unauthorized")]
  /\ us = [r \in UsReqs |->
             IF r = 1 THEN UsIdle ELSE Respond(UsIdle, 401, "unauthorized")]
  /\ nresp = NoResponse

NextRealtime == Next \/ NextStatus

SpecRealtime == InitRealtime /\ [][NextRealtime]_vars

\* The supplier's product handlers: two updateProduct or deleteProduct
\* requests and one createProduct or import, on the products of InitProducts.
InitPrices == Init

NextPrices ==
  \/ \E r \in PuReqs :
       \/ PuBegin(r)
       \/ PuFindProduct(r)
       \/ PuSave(r)
       \/ PuDelete(r)
  \/ CpBegin
  \/ CpSave
  \/ CpInsertMany

SpecPrices == InitPrices /\ [][NextPrices]_vars

\* One createOrder alone: the state of InitCatalog, and no other handler.
SpecSingle == InitCatalog /\ [][Next]_vars

\* The handlers that create users start from the users of AccountUsers.
InitRegister ==
  /\ NoAccounts /\ NoPayments /\ NoQueries /\ NoMore
  /\ users = AccountUsers
  /\ products = InitProducts
  /\ orders = <<>>
  /\ notifications = <<>>
  /\ emitted = <<>>
  /\ io = TRUE
  /\ co = [r \in CoReqs |-> CoIdle]
  /\ us = [r \in UsReqs |-> UsIdle]
  /\ nresp = NoResponse

NextRegister ==
  \E r \in RgReqs :
    \/ RgBegin(r)
    \/ RgFindAdmin(r)
    \/ RgFindOne(r)
    \/ RgHash(r)
    \/ RgSave(r)

SpecRegister == InitRegister /\ [][NextRegister]_vars

\* Notifications stored when getNotifications is called.
MaxStored == 52

\* The i-th of n stored notifications: to c1, or to s1 for every other-th
\* one; read for every read-th one; stamped in the order of insertion, in the
\* reverse order (the clocks of two servers), or two by two at one instant.
StoredNotification(i, n, other, read, stamps) ==
  [id |-> <<"co", i>>, idSender |-> "c1",
   idReceiver |-> IF other > 0 /\ i % other = 0 THEN "s1" ELSE "c1",
   type |-> "new_order", message |-> "Nouvelle commande",
   isRead |-> (read > 0 /\ i % read = 0),
   createdAt |-> CASE stamps = "rising" -> i
                   [] stamps = "falling" -> n - i
                   [] OTHER -> i \div 2]

InitQuery ==
  /\ NoAccounts /\ NoPayments /\ NoMore
  /\ users = InitUsers
  /\ products = InitProducts
  /\ orders = <<>>
  /\ notifications \in
       {[i \in 1..n |-> StoredNotification(i, n, other, read, stamps)] :
          n \in 0..MaxStored, other \in {0, 9}, read \in {0, 3},
          stamps \in {"rising", "falling", "paired"}}
  /\ emitted = <<>>
  /\ io = TRUE
  /\ co = [r \in CoReqs |-> CoIdle]
  /\ us = [r \in UsReqs |-> UsIdle]
  /\ nresp = NoResponse
  /\ pu = [r \in PuReqs |-> PuIdle]
  /\ gn = GnIdle
  /\ gate = GateIdle

NextQuery == GnBegin \/ GnFind \/ GnCount

SpecQuery == InitQuery /\ [][NextQuery]_vars

InitGate == Init

NextGate == GateArrive \/ GateRun \/ GateHandler \/ GateClose \/ Tick

SpecGate == InitGate /\ [][NextGate]_vars

\* ------------------------------------------------------ createOrder: claims

RECURSIVE Ordered(_, _)
\* The quantity the lines of a body order of product p.
Ordered(items, p) ==
  IF items = <<>> THEN 0
  ELSE (IF Head(items).id = p THEN Head(items).quantity ELSE 0)
         + Ordered(Tail(items), p)

RECURSIVE CurrentPriceTotal(_)
\* The sum over the lines of the product's sellingPrice times the quantity.
CurrentPriceTotal(items) ==
  IF items = <<>> THEN 0
  ELSE products[Head(items).id].sellingPrice * Head(items).quantity
         + CurrentPriceTotal(Tail(items))

RECURSIVE SumOver(_, _)
\* The sum of f[x] over the x of S.
SumOver(S, f) ==
  IF S = {} THEN 0
  ELSE LET x == CHOOSE y \in S : TRUE IN f[x] + SumOver(S \ {x}, f)

CoDone(r) == co[r].pc = "done"
CoSucceeded(r) == CoDone(r) /\ co[r].code = 201

\* What request r has taken from product p so far: the lines its second loop
\* has gone through.
Applied(r, p) == Ordered(SubSeq(co[r].body.items, 1, co[r].j), p)

\* The suppliers the lines of a body resolve to.
ResolvedSuppliers(items) ==
  {products[items[k].id].supplierId :
     k \in {n \in DOMAIN items : items[n].id \in DOMAIN products}}

FromRequest(r) == <<"co", r>>
NotificationsOf(r) ==
  {k \in DOMAIN notifications : notifications[k].id = FromRequest(r)}
EventsOf(r) == {k \in DOMAIN emitted : emitted[k].from = FromRequest(r)}

\* Request r has written nothing; when no other request has arrived, the
\* collections are as they were.
NoWrites(r) ==
  /\ r \notin DOMAIN orders
  /\ co[r].j = 0
  /\ NotificationsOf(r) = {}
  /\ EventsOf(r) = {}
  /\ (\A q \in CoReqs \ {r} : co[q].pc = "idle") =>
       /\ products = InitProducts
       /\ orders = <<>>
       /\ notifications = <<>>
       /\ emitted = <<>>

\* C1: a createOrder that succeeds persists an order whose total is the sum
\* over its line items of the product's current sellingPrice times the
\* requested quantity, and has lowered each product's quantity by exactly the
\* amount ordered for it: every product's stock is its initial stock less
\* what the requests have taken from it, and a request that succeeded has taken
\* all its lines.
C1_TotalAndDecrement ==
  /\ \A r \in CoReqs :
       CoSucceeded(r) =>
         /\ r \in DOMAIN orders
         /\ orders[r].total = CurrentPriceTotal(co[r].body.items)
         /\ \A p \in DOMAIN products :
              Applied(r, p) = Ordered(co[r].body.items, p)
  /\ \A p \in DOMAIN products :
       LET Taken == [r \in CoReqs |-> Applied(r, p)]
       IN products[p].quantity = InitProducts[p].quantity - SumOver(CoReqs, Taken)

\* A two-line order of 1 x p1 (price 5) and 2 x p2 (price 3) has succeeded.
C1_Witness ==
  \E r \in CoReqs :
    /\ CoSucceeded(r)
    /\ Len(co[r].body.items) = 2
    /\ orders[r].total = 11
    /\ products["p2"].quantity = 0

\* No body lists a product in two lines.
DistinctLines ==
  \A r \in CoReqs :
    \A k, n \in DOMAIN co[r].body.items :
      co[r].body.items[k].id = co[r].body.items[n].id => k = n

\* C2: never oversell: under every interleaving of createOrder requests (each
\* listing a product in one line at most), no product's quantity is negative,
\* and the orders persisted sell no more of a product than its stock.
C2_NeverOversell ==
  DistinctLines =>
    \A p \in DOMAIN products :
      /\ products[p].quantity >= 0
      /\ LET Sold == [o \in DOMAIN orders |-> Ordered(co[o].body.items, p)]
         IN SumOver(DOMAIN orders, Sold) <= InitProducts[p].quantity

\* C5: a createOrder whose lines resolve to two or more suppliers is
\* rejected and has written nothing: no order, no decrement, no notification.
C5_SeveralSuppliersRejected ==
  \A r \in CoReqs :
    (co[r].pc # "idle" /\ Cardinality(ResolvedSuppliers(co[r].body.items)) >= 2) =>
      /\ NoWrites(r)
      /\ co[r].pc \in {"findUser", "findProduct", "done"}
      /\ CoDone(r) => co[r].code \in {400, 401, 403, 404, 500}

\* A request has been answered that its products are of several suppliers.
C5_Witness ==
  \E r \in CoReqs :
    /\ CoDone(r)
    /\ co[r].msg = "same_supplier"
    /\ Cardinality(ResolvedSuppliers(co[r].body.items)) = 2

\* The request of r passes every validation step of createOrder.
ValidRequest(r) ==
  LET items == co[r].body.items
  IN /\ co[r].userId # NoUser
     /\ co[r].body.isArray
     /\ Len(items) > 0
     /\ users[co[r].userId].role = "client"
     /\ \A k \in DOMAIN items :
          /\ items[k].id # NoId
          /\ items[k].quantity >= 1
          /\ items[k].id \in DOMAIN products
          /\ items[k].quantity <= InitProducts[items[k].id].quantity
     /\ Cardinality(ResolvedSuppliers(items)) = 1

\* C6: createOrder fails closed: a request rejected by a validation step has
\* written nothing, and a request that has written anything passed every
\* validation step.
C6_FailsClosed ==
  \A r \in CoReqs :
    /\ (CoDone(r) /\ co[r].code \in {400, 401, 403, 404}) => NoWrites(r)
    /\ ~ValidRequest(r) => NoWrites(r)

\* A request has been rejected at its second line, for its stock.
C6_Witness ==
  \E r \in CoReqs :
    /\ CoDone(r)
    /\ co[r].msg = "insufficient_quantity"
    /\ co[r].i = 2

\* C7: when a createOrder has ended, either its order is persisted and every
\* one of its lines has been taken from the stock, or there is no order and
\* nothing has been taken.
C7_AtomicWithDecrement ==
  \A r \in CoReqs :
    CoDone(r) =>
      \/ /\ r \in DOMAIN orders
         /\ \A p \in DOMAIN products : Applied(r, p) = Ordered(co[r].body.items, p)
      \/ /\ r \notin DOMAIN orders
         /\ \A p \in DOMAIN products : Applied(r, p) = 0

\* C9: a createOrder that succeeds has persisted its order with status "en
\* cours", one notification of type new_order to the order's supplier, and one
\* newOrder event, to the room the supplier's socket joins.
C9_OrderNotificationEvent ==
  \A r \in CoReqs :
    CoSucceeded(r) =>
      /\ r \in DOMAIN orders
      /\ orders[r].status = "en cours"
      /\ Cardinality(NotificationsOf(r)) = 1
      /\ \A k \in NotificationsOf(r) :
           /\ notifications[k].type = "new_order"
           /\ notifications[k].idReceiver = orders[r].idSupplier
      /\ Cardinality(EventsOf(r)) = 1
      /\ \A k \in EventsOf(r) :
           /\ emitted[k].event = "newOrder"
           /\ emitted[k].room = JoinedRoom(orders[r].idSupplier)

\* Two orders have succeeded, for two suppliers.
C9_Witness ==
  /\ \A r \in CoReqs : CoSucceeded(r)
  /\ Len(notifications) = 2
  /\ Len(emitted) = 2
  /\ emitted[1].room # emitted[2].room

\* ------------------------------------------------ updateOrderStatus: claims

\* The unique next state of a status; an order that has arrived has none.
LegalNext(status) ==
  IF status = "en cours" THEN "on route"
  ELSE IF status = "on route" THEN "arrived"
  ELSE "no next status"

UsDone(r) == us[r].pc = "done"
UsNotificationsOf(r) == {k \in DOMAIN notifications : notifications[k].id = <<"us", r>>}
UsEventsOf(r) == {k \in DOMAIN emitted : emitted[k].from = <<"us", r>>}

\* Request r is by the supplier of an order it has read.
BySupplier(r) ==
  /\ us[r].cur # "unread"
  /\ us[r].userId = orders[us[r].orderId].idSupplier

\* A step in which a request is answered with a rejection.
Rejects(r) == us[r].pc # "done" /\ us'[r].pc = "done" /\ us'[r].code = 400

\* C3: updateOrderStatus accepts a target status only when it is the unique
\* next state of the status it read; for any other target (the same state, a
\* backward state, a skipped state, any target once arrived) the supplier's
\* request is rejected, and the rejection leaves the stored status as it is.
C3_OnlyLegalNextAccepted ==
  /\ [](\A r \in UsReqs :
          /\ (us[r].pc \in {"save", "notify"} \/ us[r].written) =>
               us[r].status = LegalNext(us[r].cur)
          /\ (BySupplier(r) /\ us[r].status # LegalNext(us[r].cur)) =>
               (UsDone(r) /\ us[r].code = 400 /\ ~us[r].written))
  /\ [][\A r \in UsReqs : Rejects(r) => orders' = orders]_vars

\* The order has been taken to arrived by two accepted requests, and a third
\* request by its supplier, for a backward status, has been rejected.
C3_Witness ==
  /\ orders[1].status = "arrived"
  /\ \E r \in UsReqs :
       /\ UsDone(r) /\ BySupplier(r)
       /\ us[r].cur = "arrived" /\ us[r].status = "on route"
       /\ us[r].code = 400 /\ us[r].msg = "already_arrived"

\* C4: the stored status only ever moves forward one step at a time, under
\* every interleaving of the requests.
C4_ForwardOneStep ==
  [][\A o \in DOMAIN orders :
       orders'[o].status # orders[o].status =>
         orders'[o].status = LegalNext(orders[o].status)]_vars

ValidStatusSent(r) == us[r].status \in {"en cours", "on route", "arrived"}

\* Request r is by an authenticated user who is not the supplier of the order
\* it names.
ByOtherUser(r) ==
  /\ us[r].userId # NoUser
  /\ us[r].orderId \in DOMAIN orders
  /\ us[r].userId # orders[us[r].orderId].idSupplier

\* Request r has changed no status and made no notification and no event.
UsNoWrites(r) ==
  /\ ~us[r].written
  /\ us[r].pc \in {"findOrder", "done"}
  /\ UsNotificationsOf(r) = {}
  /\ UsEventsOf(r) = {}

\* C8 as stated: a request by an authenticated user who is not the order's
\* supplier is rejected with an authorization error (403) and writes nothing.
C8_Original ==
  \A r \in UsReqs :
    (UsDone(r) /\ ByOtherUser(r)) => (us[r].code = 403 /\ UsNoWrites(r))

\* C8 amended: a request by an authenticated user who is not the order's
\* supplier writes nothing and is rejected: with 403 when the status it sends
\* is one of the three statuses, with 400 when it is not.
C8_OnlySupplier ==
  \A r \in UsReqs :
    ByOtherUser(r) =>
      /\ UsNoWrites(r)
      /\ UsDone(r) => us[r].code = (IF ValidStatusSent(r) THEN 403 ELSE 400)

\* The buyer and another supplier have both been refused with 403, while the
\* supplier's own request has been accepted.
C8_Witness ==
  /\ \E r \in UsReqs : UsDone(r) /\ us[r].userId = "s2" /\ us[r].code = 403
  /\ \E r \in UsReqs : UsDone(r) /\ us[r].userId = "c1" /\ us[r].code = 403
  /\ \E r \in UsReqs : UsDone(r) /\ us[r].userId = "s1" /\ us[r].code = 200

\* --------------------------------------------- notification handlers: claims

\* A step in which markAllAsRead answers user u with success.
MarkAllAsReadCompletes(u) ==
  /\ nresp'.op = "markAllAsRead"
  /\ nresp'.userId = u
  /\ nresp'.code = 200

\* C10: after markAllAsRead completes for user u, no notification whose
\* receiver is u is unread, and every notification of another receiver is as
\* it was before the call.
C10_MarkAllAsRead ==
  [][\A u \in UserIds :
       MarkAllAsReadCompletes(u) =>
         /\ DOMAIN notifications' = DOMAIN notifications
         /\ \A k \in DOMAIN notifications' :
              /\ notifications'[k].idReceiver = u => notifications'[k].isRead
              /\ notifications[k].idReceiver # u =>
                   notifications'[k] = notifications[k]]_vars

\* markAllAsRead has completed for s1, whose two notifications are read, while
\* a notification of c1 is still unread.
C10_Witness ==
  /\ nresp = Answer("markAllAsRead", "s1", 200)
  /\ Cardinality({k \in DOMAIN notifications :
                    notifications[k].idReceiver = "s1" /\ notifications[k].isRead}) = 2
  /\ \E k \in DOMAIN notifications :
       notifications[k].idReceiver = "c1" /\ ~notifications[k].isRead

\* ------------------------------------------------------------ login: claims

LgDone(r) == lg[r].pc = "done"

\* Login r has found its user with the right password, and the user is a
\* client or a supplier.
LgSubscriber(r) ==
  /\ lg[r].user # NoUser
  /\ users[lg[r].user].role \in {"client", "supplier"}

\* Login r holds no token.
LgNoToken(r) == lg[r].token = NoToken /\ lg[r].refreshToken = NoRefreshToken

\* Every subscription of user u that is marked active has its end in the
\* past, and there is one.
OnlyExpired(u) ==
  /\ ActiveOf(u) # {}
  /\ \A k \in ActiveOf(u) : abonnements[k].end < now

\* C11: a login with correct credentials by a client or supplier whose status
\* is true and whose active subscription has its end in the past goes on to
\* the denial: when it is answered subscription_expired, that subscription's
\* status and the user's status are false and it holds no token; and a login
\* that repeats it is answered account_not_activated.
C11_ExpiredThenNotActivated ==
  /\ [](\A r \in LgReqs :
          /\ (LgDone(r) /\ lg[r].msg = "subscription_expired") =>
               /\ lg[r].code = 403
               /\ ~abonnements[lg[r].sub].status
               /\ ~users[lg[r].user].status
               /\ LgNoToken(r)
          /\ (LgDone(r) /\ "subscription_expired" \in lg[r].repeatOf) =>
               /\ lg[r].code = 403
               /\ lg[r].msg = "account_not_activated"
               /\ LgNoToken(r))
  /\ [][\A r \in LgReqs :
          (/\ lg[r].pc = "findSubscription"
           /\ lg'[r].pc # "findSubscription"
           /\ OnlyExpired(lg[r].user)) =>
            lg'[r].pc = "saveSubscription"]_vars
  /\ [][\A r \in LgReqs :
          (lg[r].pc \in {"saveSubscription", "saveUser"} /\ lg'[r].pc = "done"
             /\ lg[r].sub # NoSub) =>
            lg'[r].msg \in {"subscription_expired", "internal"}]_vars

\* c1's login has been denied with subscription_expired, and the login that
\* repeats it has been denied with account_not_activated.
C11_Witness ==
  \E q, r \in LgReqs :
    /\ LgDone(q) /\ lg[q].msg = "subscription_expired" /\ lg[q].user = "c1"
    /\ LgDone(r) /\ "subscription_expired" \in lg[r].repeatOf
    /\ lg[r].msg = "account_not_activated"

\* C12: a login of a client or supplier holds tokens only when it is answered
\* 200 with both tokens, the status it read is true and the subscription it
\* found is the user's, read as active, with an end not before the instant of
\* the check; a login answered otherwise (a failed write aside) holds no token
\* and is answered 403 with exactly one of account_not_activated (status read
\* false), no_subscription (no active subscription found) and
\* subscription_expired (the one found ends in the past).
C12_TokensOnlyWithSubscription ==
  /\ [](\A r \in LgReqs :
          (LgDone(r) /\ LgSubscriber(r)) =>
            /\ lg[r].code \in {200, 403, 500}
            /\ lg[r].code = 200 <=> lg[r].token # NoToken
            /\ lg[r].code = 200 <=> lg[r].refreshToken # NoRefreshToken
            /\ lg[r].code = 200 =>
                 /\ lg[r].status
                 /\ lg[r].sub # NoSub
                 /\ abonnements[lg[r].sub].id_user = lg[r].user
                 /\ abonnements[lg[r].sub].end >= lg[r].at
            /\ lg[r].code = 403 =>
                 /\ lg[r].msg \in {"account_not_activated", "no_subscription",
                                   "subscription_expired"}
                 /\ lg[r].msg = "account_not_activated" <=> ~lg[r].status
                 /\ lg[r].msg = "no_subscription" <=> (lg[r].status /\ lg[r].sub = NoSub)
                 /\ lg[r].msg = "subscription_expired" =>
                      abonnements[lg[r].sub].end < lg[r].at)
  /\ [][\A r \in LgReqs :
          /\ (lg[r].pc = "findUser" /\ lg'[r].user # NoUser) =>
               lg'[r].status = users[lg'[r].user].status
          /\ (lg[r].pc = "findSubscription" /\ lg'[r].pc # "findSubscription") =>
               /\ lg'[r].sub = NoSub <=> ActiveOf(lg[r].user) = {}
               /\ lg'[r].sub # NoSub => lg'[r].sub \in ActiveOf(lg[r].user)
               /\ lg'[r].sub # NoSub => lg'[r].at = now]_vars

\* c1 has logged in with tokens on a subscription that has not ended, and s1,
\* who has no subscription, has been denied with no_subscription.
C12_Witness ==
  \E q, r \in LgReqs :
    /\ LgDone(q) /\ lg[q].user = "c1" /\ lg[q].code = 200 /\ lg[q].token # NoToken
    /\ LgDone(r) /\ lg[r].user = "s1" /\ lg[r].msg = "no_subscription"

\* C20: a login that repeats one already denied for an expired or a missing
\* subscription changes no stored user, subscription or refresh token, at any
\* of its steps.
C20_DeniedLoginIdempotent ==
  [][\A r \in LgReqs :
       (lg[r].repeatOf # {} /\ lg'[r] # lg[r]) =>
         /\ users' = users
         /\ abonnements' = abonnements
         /\ refreshTokens' = refreshTokens]_vars

\* A login of c1 has been denied for its subscription while a second
\* subscription of c1 is still marked active, and the login that repeats it
\* has been answered.
C20_Witness ==
  \E q, r \in LgReqs :
    /\ LgDone(q) /\ lg[q].user = "c1"
    /\ lg[q].msg \in {"subscription_expired", "no_subscription"}
    /\ LgDone(r) /\ lg[r].repeatOf # {} /\ lg[r].code = 403
    /\ ActiveOf("c1") # {}

\* ---------------------------------------------------- createPayment: claims

PayDone(r) == pay[r].pc = "done"

\* The payments request r has made.
PaymentsBy(r) == {k \in 1..Len(payments) : payments[k].id = r}

\* C13: in every reachable state an order has at most one payment, also when
\* two createPayment requests interleave between the existence check and the
\* insert; a request that arrives when its order has a payment is rejected
\* (with 400 "payment exists" when it passes the checks before that one), and
\* a request that is not answered 201 has made no payment.
C13_OnePaymentPerOrder ==
  /\ \A o \in DOMAIN orders : Cardinality(PaymentsOf(o)) <= 1
  /\ \A r \in PayReqs :
       /\ (PayDone(r) /\ pay[r].paidAtArrival) =>
            (pay[r].code # 201 /\ PaymentsBy(r) = {})
       /\ (PayDone(r) /\ pay[r].paidAtArrival /\ pay[r].commande # NoCommande) =>
            (pay[r].code = 400 /\ pay[r].msg = "payment_exists")
       /\ PaymentsBy(r) # {} <=> (PayDone(r) /\ pay[r].code = 201)

\* One request has passed the existence check and is about to insert while
\* the other has already made the payment of the same order.
C13_Witness ==
  \E q, r \in PayReqs :
    /\ pay[q].pc = "save"
    /\ PayDone(r) /\ pay[r].code = 201
    /\ pay[q].commande = pay[r].commande

\* C14: every persisted payment's total is within 0.01 of its order's total,
\* and a request whose total differs by more from the total of the order it
\* has read as its own is rejected and makes no payment.
C14_TotalWithinTolerance ==
  /\ \A k \in 1..Len(payments) :
       TotalDiff(Milli(orders[payments[k].id_commande].total), payments[k].total)
         <= Tolerance
  /\ \A r \in PayReqs :
       (/\ PayDone(r)
        /\ pay[r].commande # NoCommande
        /\ TotalDiff(Milli(orders[pay[r].commande].total), pay[r].paymentTotal)
             > Tolerance) =>
         (pay[r].code = 400 /\ PaymentsBy(r) = {})

\* A payment of 5.01 for the order of 5 is persisted, and a payment of 5.011
\* for it has been rejected for its total.
C14_Witness ==
  /\ \E k \in 1..Len(payments) :
       payments[k].id_commande = 1 /\ payments[k].total = 5010
  /\ \E r \in PayReqs :
       /\ PayDone(r) /\ pay[r].msg = "total_mismatch"
       /\ pay[r].paymentTotal = 5011

\* Request r comes from an authenticated client for an order of another
\* buyer.
ByNonBuyer(r) ==
  /\ pay[r].userId # NoUser
  /\ pay[r].id_commande \in DOMAIN orders
  /\ orders[pay[r].id_commande].idBuyer # pay[r].userId

\* The body of request r carries a total that is a number, and a file.
CompleteBody(r) ==
  /\ pay[r].total.type # "undefined"
  /\ ~PaymentTotal(pay[r].total).nan
  /\ pay[r].file

\* Every persisted payment is owned by the buyer of its order.
OwnerIsBuyer ==
  \A k \in 1..Len(payments) :
    payments[k].id_owner = orders[payments[k].id_commande].idBuyer

\* C15 as stated: a createPayment by an authenticated client who is not the
\* order's buyer is rejected with an authorization error (403) and persists
\* no payment, so every payment's id_owner is its order's idBuyer.
C15_Original ==
  /\ OwnerIsBuyer
  /\ \A r \in PayReqs :
       (PayDone(r) /\ ByNonBuyer(r)) => (pay[r].code = 403 /\ PaymentsBy(r) = {})

\* C15 amended: a createPayment by an authenticated client who is not the
\* order's buyer persists no payment and is rejected: with 403 when its body
\* carries a numeric total and a file, with 400 when it does not; every
\* payment's id_owner is its order's idBuyer.
C15_OnlyBuyerPays ==
  /\ OwnerIsBuyer
  /\ \A r \in PayReqs :
       ByNonBuyer(r) =>
         /\ PaymentsBy(r) = {}
         /\ pay[r].pc \in {"findCommande", "done"}
         /\ PayDone(r) => pay[r].code = (IF CompleteBody(r) THEN 403 ELSE 400)

\* c2 has been refused with 403 for c1's order, which c1 has paid.
C15_Witness ==
  /\ \E r \in PayReqs :
       /\ PayDone(r) /\ pay[r].userId = "c2" /\ pay[r].id_commande = 1
       /\ pay[r].code = 403
  /\ \E k \in 1..Len(payments) :
       payments[k].id_commande = 1 /\ payments[k].id_owner = "c1"

\* ------------------------------------------------ getNotifications: claims

GnDone == gn.pc = "done" /\ gn.code = 200

\* The stored notifications addressed to the caller that the request asks
\* for when the default is unread only: the unread ones unless unreadOnly is
\* "false".
AskedFor ==
  {k \in 1..Len(notifications) :
     /\ notifications[k].idReceiver = gn.userId
     /\ gn.unreadOnly # "false" => ~notifications[k].isRead}

\* The list returned holds at most 50 notifications, all addressed to the
\* caller, newest first.
CappedOwnNewestFirst ==
  GnDone =>
    /\ Len(gn.notifications) <= Limit
    /\ \A i \in 1..Len(gn.notifications) : gn.notifications[i].idReceiver = gn.userId
    /\ \A i \in 1..Len(gn.notifications) : \A j \in 1..Len(gn.notifications) :
         i < j => gn.notifications[i].createdAt >= gn.notifications[j].createdAt

\* The list returned holds the most recent notifications matching the filter
\* the code built: all of them when they are at most 50, and otherwise 50 of
\* them, none older than a matching one left out.
MostRecentOfFilter ==
  GnDone =>
    LET M == Matching(gn.userId, gn.unreadOnly)
        R == {gn.notifications[i].id : i \in 1..Len(gn.notifications)}
    IN /\ Len(gn.notifications) = IF Cardinality(M) <= Limit THEN Cardinality(M) ELSE Limit
       /\ Cardinality(R) = Len(gn.notifications)
       /\ R \subseteq {notifications[k].id : k \in M}
       /\ \A k \in M : notifications[k].id \notin R =>
            \A i \in 1..Len(gn.notifications) :
              gn.notifications[i].createdAt >= notifications[k].createdAt

\* C16: getNotifications called without unreadOnly returns only the caller's
\* unread notifications; in every case the list holds at most 50
\* notifications, all addressed to the caller, newest first, and they are the
\* most recent ones of those asked for.
C16_UnreadOnlyByDefault ==
  /\ CappedOwnNewestFirst
  /\ GnDone =>
       /\ gn.unreadOnly = "undefined" =>
            \A i \in 1..Len(gn.notifications) : ~gn.notifications[i].isRead
       /\ {gn.notifications[i].id : i \in 1..Len(gn.notifications)}
            \subseteq {notifications[k].id : k \in AskedFor}

\* A request without unreadOnly has been answered with a read notification
\* in its list.
C16_ReadReturnedByDefault ==
  /\ GnDone /\ gn.unreadOnly = "undefined"
  /\ \E i \in 1..Len(gn.notifications) : gn.notifications[i].isRead

\* ------------------------------------------------ the gates: claims

\* A gate of the route is about to run on a request that carries no token,
\* or a token that does not verify at this instant.
AtGateUnauthenticated ==
  /\ gate.pc = "gates" /\ gate.k <= Len(gate.chain)
  /\ ~gate.token.present \/ VerifyError(gate.token, now)

\* C17, amended: a request with a missing bearer token is answered 401 and
\* a request with an invalid or expired bearer token is answered 403, by the
\* authentication gate and by the role gates alike, and the handler behind
\* the gate does not run.
C17_Missing401Invalid403 ==
  [][(AtGateUnauthenticated /\ gate' # gate) =>
       /\ gate'.pc = "done" /\ ~gate'.ran
       /\ gate'.code = IF gate.token.present THEN 403 ELSE 401]_vars

\* A handler that has run was reached with a token that is present and
\* signed with the server's secret.
HandlerBehindGates ==
  gate.ran => gate.token.present /\ gate.token.signed /\ gate.userId = gate.token.id

\* C17, as stated: a request with a missing bearer token and a request
\* with an invalid or expired bearer token are both answered 401 by the gate
\* they reach, the authentication gate or a role gate, and the handler
\* behind it does not run.
C17_Unauthenticated401 ==
  [][(AtGateUnauthenticated /\ gate' # gate) =>
       gate'.pc = "done" /\ gate'.code = 401 /\ ~gate'.ran]_vars

\* A request whose token does not verify has been answered 403 by a role
\* gate used alone.
C17_Witness ==
  /\ gate.pc = "done" /\ gate.code = 403 /\ ~gate.ran
  /\ gate.token.present /\ VerifyError(gate.token, now)
  /\ gate.token.role = "client" /\ gate.chain = <<"requireClient">>

\* ------------------------------------------------ subscriptions: claims

\* C18: every persisted subscription satisfies end > start in every
\* reachable state, after any sequence of createSubscription and
\* updateSubscription requests, whether an update changes start only, end
\* only, or both.
C18_EndAfterStart ==
  \A k \in 1..Len(abonnements) : abonnements[k].end > abonnements[k].start

\* Two updateSubscription requests of one subscription, one changing end
\* only and one changing start only, have both been answered 200, and the
\* subscription stored ends when it starts.
C18_BothUpdatesSaved ==
  /\ \E r, q \in AdReqs :
       /\ r # q
       /\ ad[r].pc = "done" /\ ad[r].code = 200 /\ ad[r].modified = {"end"}
       /\ ad[q].pc = "done" /\ ad[q].code = 200 /\ ad[q].modified = {"start"}
       /\ ad[r].subscriptionId = ad[q].subscriptionId
  /\ \E k \in 1..Len(abonnements) : abonnements[k].end <= abonnements[k].start

\* ------------------------------------------------ the catalogue: claims

RECURSIVE LinesTotal(_)
\* The sum of price times quantity over stored line items.
LinesTotal(lines) ==
  IF lines = <<>> THEN 0
  ELSE Head(lines).price * Head(lines).quantity + LinesTotal(Tail(lines))

\* The name, price and quantity of the stored line items of an order.
Snapshot(order) ==
  [k \in DOMAIN order.products |->
     <<order.products[k].productId, order.products[k].name,
       order.products[k].price, order.products[k].quantity>>]

\* C19: for every persisted order, in every reachable state, total equals
\* the sum of price times quantity over the order's own stored line items;
\* and no step, an updateProduct or a deleteProduct on a referenced product
\* among them, changes the stored line items (name, price, quantity) or the
\* total of a persisted order.
C19_TotalOfOwnSnapshot ==
  /\ [](\A o \in DOMAIN orders : orders[o].total = LinesTotal(orders[o].products))
  /\ [][\A o \in DOMAIN orders :
          /\ o \in DOMAIN orders'
          /\ Snapshot(orders'[o]) = Snapshot(orders[o])
          /\ orders'[o].total = orders[o].total]_vars

\* An order of p1 is persisted with the name and price p1 had at order time,
\* and an updateProduct has since changed the price of p1, or a deleteProduct
\* has removed it.
C19_Witness ==
  \E o \in DOMAIN orders :
    /\ orders[o].products[1].productId = "p1"
    /\ orders[o].products[1].price = InitProducts["p1"].sellingPrice
    /\ orders[o].products[1].name = InitProducts["p1"].name
    /\ orders[o].total = LinesTotal(orders[o].products)
    /\ \E r \in PuReqs :
         /\ pu[r].pc = "done" /\ pu[r].code = 200 /\ pu[r].id = "p1"
         /\ \/ "p1" \notin DOMAIN products
            \/ products["p1"].sellingPrice # InitProducts["p1"].sellingPrice

\* ------------------------------------- updateOrderStatus: its notifications

\* C24: every successful updateOrderStatus has persisted the new status and
\* then created exactly one notification of type order_status, addressed to
\* the order's buyer with the message of the new status, and published
\* exactly one orderStatusUpdate event to the buyer's room; a rejected
\* updateOrderStatus has created no notification and published no event; and
\* no request notifies or publishes before it has persisted its status.
C24_NotifiesBuyerOnce ==
  /\ [](\A r \in UsReqs :
          /\ (UsDone(r) /\ us[r].code = 200) =>
               /\ us[r].written
               /\ Cardinality(UsNotificationsOf(r)) = 1
               /\ \A k \in UsNotificationsOf(r) :
                    /\ notifications[k].type = "order_status"
                    /\ notifications[k].idReceiver = orders[us[r].orderId].idBuyer
                    /\ notifications[k].message = StatusMessage(us[r].status)
               /\ Cardinality(UsEventsOf(r)) = 1
               /\ \A k \in UsEventsOf(r) :
                    /\ emitted[k].event = "orderStatusUpdate"
                    /\ emitted[k].room = <<"client", orders[us[r].orderId].idBuyer>>
                    /\ emitted[k].orderId = us[r].orderId
          /\ (UsDone(r) /\ us[r].code # 200) =>
               UsNotificationsOf(r) = {} /\ UsEventsOf(r) = {}
          /\ ~us[r].written => UsNotificationsOf(r) = {} /\ UsEventsOf(r) = {})
  /\ [][\A r \in UsReqs :
          Len(notifications') > Len(notifications) /\ us'[r] # us[r] =>
            us[r].written]_vars

\* The supplier's request for "on route" has succeeded with its notification
\* and its event, and another request has been rejected.
C24_Witness ==
  /\ \E r \in UsReqs :
       /\ UsDone(r) /\ us[r].code = 200 /\ us[r].status = "on route"
       /\ \E k \in UsNotificationsOf(r) : notifications[k].idReceiver = "c1"
       /\ \E k \in UsEventsOf(r) : emitted[k].room = <<"client", "c1">>
  /\ \E r \in UsReqs : UsDone(r) /\ us[r].code = 400

\* ------------------------------------------- createOrder alone: the stock

\* C26: a createOrder processed with no other request interleaved never
\* leaves a product with a quantity below zero, also when it lists a product
\* in more than one line and each line alone fits the stock.
C26_SingleOrderKeepsStock ==
  \A p \in DOMAIN products : products[p].quantity >= 0

\* The one request has succeeded with two lines of one p1 each, p1 having had
\* a stock of one, and p1's quantity is below zero.
C26_TwoLinesOversell ==
  \E r \in CoReqs :
    /\ CoSucceeded(r)
    /\ co[r].body.items = <<[id |-> "p1", quantity |-> 1], [id |-> "p1", quantity |-> 1]>>
    /\ products["p1"].quantity < 0

\* ------------------------------- updateOrderStatus: notifications and steps

\* The order_status notifications that tell the buyer of order o of the
\* status t.
ToldOf(o, t) ==
  {k \in DOMAIN notifications :
     /\ notifications[k].type = "order_status"
     /\ notifications[k].idReceiver = orders[o].idBuyer
     /\ notifications[k].message = StatusMessage(t)}

\* The forward steps that lead to a status.
StepsTo(status) ==
  IF status = "on route" THEN {"on route"}
  ELSE IF status = "arrived" THEN {"on route", "arrived"}
  ELSE {}

\* C30: for every order, under any interleaving of updateOrderStatus
\* requests, the order_status notifications created for its buyer are one
\* for each forward step the order has taken and no more: at most one for
\* each target status, none for a status the order has not reached, so at
\* most two.
C30_OneNotificationPerStep ==
  \A o \in DOMAIN orders :
    /\ \A t \in {"on route", "arrived"} :
         Cardinality(ToldOf(o, t)) <= (IF t \in StepsTo(orders[o].status) THEN 1 ELSE 0)
    /\ Cardinality(ToldOf(o, "on route") \cup ToldOf(o, "arrived")) <= 2

\* Two requests of the supplier for "on route" have both succeeded on an
\* order that has taken one step, and the buyer holds two notifications.
C30_TwoNotificationsOneStep ==
  /\ orders[1].status = "on route"
  /\ Cardinality(ToldOf(1, "on route")) = 2
  /\ \E r, q \in UsReqs :
       /\ r # q
       /\ UsDone(r) /\ us[r].code = 200 /\ us[r].status = "on route"
       /\ UsDone(q) /\ us[q].code = 200 /\ us[q].status = "on route"

\* ------------------------------------------------ login after a renewal

\* User u has a subscription marked active whose end is in the future.
HasRunningSubscription(u) ==
  \E k \in 1..Len(abonnements) :
    /\ abonnements[k].id_user = u
    /\ abonnements[k].status
    /\ abonnements[k].end > now

\* C27: a client or supplier whose status is true and who has a subscription
\* marked active with an end in the future is not denied a login for
\* subscription_expired or no_subscription, and the login does not set the
\* user's status to false, also when the user has an older subscription,
\* ended and still marked active.
C27_RunningSubscriptionGrantsLogin ==
  [][\A r \in LgReqs :
       (/\ lg[r].user # NoUser
        /\ users[lg[r].user].status
        /\ HasRunningSubscription(lg[r].user)
        /\ lg'[r] # lg[r]) =>
         /\ lg'[r].pc = "done" =>
              ~(lg'[r].code = 403 /\
                lg'[r].msg \in {"subscription_expired", "no_subscription"})
         /\ users'[lg[r].user].status]_vars

\* A login of c1 has been denied with subscription_expired and has set c1's
\* status to false, while c1's subscription until instant 5 is marked active.
C27_DeniedWhileRunning ==
  /\ \E r \in LgReqs :
       /\ LgDone(r) /\ lg[r].user = "c1"
       /\ lg[r].code = 403 /\ lg[r].msg = "subscription_expired"
  /\ HasRunningSubscription("c1")
  /\ ~users["c1"].status

\* ------------------------------------------------ the users: claims

RgDone(r) == rg[r].pc = "done"
RegisteredBy(r) == {k \in 1..Len(registered) : registered[k].by = r}

\* No two users hold one address.
NoSharedEmail ==
  /\ \A j, k \in 1..Len(registered) :
       registered[j].email = registered[k].email => j = k
  /\ \A k \in 1..Len(registered) : registered[k].email \notin DOMAIN users

\* C21, as stated: no two users share an email, and a request whose
\* lower-cased email is that of an existing user is rejected as a conflict
\* (409) and creates no user.
C21_Original ==
  /\ NoSharedEmail
  /\ \A r \in RgReqs :
       (RgDone(r) /\ rg[r].existed) => (rg[r].code = 409 /\ RegisteredBy(r) = {})

\* C21, amended: no two users share an email under any interleaving of
\* register, registerSupplier and createAdmin; a request whose lower-cased
\* email is that of an existing user creates no user and is rejected, with
\* 409 once it has passed the handler's validation and with 400 when it has
\* not; a request that finds the address free and loses it to another
\* request before its insert creates no user and is answered 500; only a
\* request answered 201 has created a user, and it has created one.
C21_UniqueEmail ==
  /\ NoSharedEmail
  /\ \A r \in RgReqs :
       /\ rg[r].existed =>
            /\ RegisteredBy(r) = {}
            /\ rg[r].pc \in {"findOne", "done"}
            /\ RgDone(r) => rg[r].code \in {400, 409}
            /\ (RgDone(r) /\ rg[r].role # NoRole) => rg[r].code = 409
       /\ (RgDone(r) /\ rg[r].code # 201) => RegisteredBy(r) = {}
       /\ (RgDone(r) /\ rg[r].code = 201) => Cardinality(RegisteredBy(r)) = 1
       /\ (RgDone(r) /\ rg[r].code = 500 /\ UsersWithEmail(rg[r].email) # {}) =>
            RegisteredBy(r) = {}

\* A request has created the user of a new address, and a later request for
\* the same address in another spelling, which found the user there when it
\* arrived, has been answered 409.
C21_Witness ==
  /\ \E r, q \in RgReqs :
       /\ RgDone(r) /\ rg[r].code = 201 /\ rg[r].email = "new"
       /\ RgDone(q) /\ rg[q].code = 409 /\ rg[q].email = "new" /\ rg[q].existed
  /\ Len(registered) = 1

\* C28: a user with role admin comes into existence only through createAdmin
\* called by an existing admin: no unauthenticated request creates a user
\* whose role is admin or yields a token that carries the admin role.
C28_AdminOnlyByAdmin ==
  /\ \A k \in 1..Len(registered) :
       registered[k].role = "admin" =>
         /\ rg[registered[k].by].op = "createAdmin"
         /\ RoleById(rg[registered[k].by].userId) = "admin"
  /\ \A r \in RgReqs :
       rg[r].op \in {"register", "registerSupplier"} => rg[r].token.role # "admin"

\* A register request that named the role admin has been answered 201 with
\* a token of the admin role, and the user it created is an admin.
C28_AdminByRegister ==
  \E r \in RgReqs :
    /\ RgDone(r) /\ rg[r].op = "register" /\ rg[r].code = 201
    /\ rg[r].token.role = "admin"
    /\ \E k \in RegisteredBy(r) : registered[k].role = "admin"

\* ------------------------------------------------- products: the two prices

\* C22: every stored product has a selling price at least its purchase
\* price, whatever createProduct, uploadProductsFromExcel and updateProduct
\* requests have run.
C22_SellingAtLeastPurchase ==
  \A p \in DOMAIN products : products[p].sellingPrice >= products[p].purchasePrice

\* Two updateProduct requests have both answered 200, one having sent only a
\* purchase price and the other only a selling price, each valid against the
\* product it read, and the stored product sells below its purchase price.
C22_TwoUpdatesCross ==
  /\ \A r \in PuReqs : pu[r].pc = "done" /\ pu[r].code = 200 /\ pu[r].id = "p1"
  /\ pu[1].modified = {"purchasePrice"}
  /\ pu[2].modified = {"sellingPrice"}
  /\ products["p1"].sellingPrice < products["p1"].purchasePrice

\* A product comes to sell below its purchase price only by the save of an
\* updateProduct whose product was written by another request after it was
\* read: the price it did not send is no longer the stored one.
C22_OnlyStaleUpdates ==
  [][(C22_SellingAtLeastPurchase /\ ~C22_SellingAtLeastPurchase')
       => \E r \in PuReqs :
            /\ pu[r].pc = "save" /\ pu'[r].pc = "done"
            /\ pu[r].id \in DOMAIN products
            /\ \/ pu[r].document.purchasePrice # products[pu[r].id].purchasePrice
               \/ pu[r].document.sellingPrice # products[pu[r].id].sellingPrice]_vars

\* ------------------------------------------------------ the bundles: claims

\* C23: every user has at most one bundle; a bundle of type supplier holds
\* the three documents Tax_number, identity and commercial_register; a bundle
\* of type client holds identity and neither Tax_number nor
\* commercial_register.
C23_OneBundlePerUser ==
  /\ \A i, j \in 1..Len(papiers) : papiers[i].id_user = papiers[j].id_user => i = j
  /\ \A k \in 1..Len(papiers) :
       /\ papiers[k].type \in {"supplier", "client"}
       /\ papiers[k].type = "supplier" =>
            papiers[k].Tax_number /\ papiers[k].identity /\ papiers[k].commercial_register
       /\ papiers[k].type = "client" =>
            papiers[k].identity /\ ~papiers[k].Tax_number
            /\ ~papiers[k].commercial_register

\* Two uploads of supplier s1 have both found no bundle: one has inserted its
\* bundle, the other has been answered 500, and s1 has one bundle.
C23_Witness ==
  /\ dc[1].pc = "done" /\ dc[2].pc = "done"
  /\ dc[1].userId = "s1" /\ dc[2].userId = "s1"
  /\ dc[1].document # NoPapier /\ dc[2].document # NoPapier
  /\ dc[1].index = 0 /\ dc[2].index = 0
  /\ {dc[1].code, dc[2].code} = {201, 500}
  /\ Cardinality(PapiersOf("s1")) = 1

\* ---------------------------------------------------- resetPassword: claims

\* The writes of a user's password that a reset token has allowed.
WritesBy(resetToken) ==
  {w \in UNION {{e} \X DOMAIN passwords[e] : e \in DOMAIN passwords} :
     passwords[w[1]][w[2]].resetToken = resetToken}

\* C29: a password-reset record changes a password at most once, also when a
\* second resetPassword with the same token started before the first marked
\* the record used.
C29_ResetChangesOnce ==
  \A resetToken \in DOMAIN resets : Cardinality(WritesBy(resetToken)) <= 1

\* Both requests carried token 1 and have answered 200, and the password of c1
\* has been written twice: it is the second request's, not the first's.
C29_TwoResetsOneToken ==
  /\ \A r \in RpReqs : rp[r].pc = "done" /\ rp[r].code = 200 /\ rp[r].resetToken = 1
  /\ Len(passwords["c1"]) = 3
  /\ rp[1].newPassword = "first" /\ rp[2].newPassword = "second"
  /\ passwords["c1"][3].password = "second"

\* ------------------------------------------------- real-time delivery: claims

\* The notification a request has stored.
Stored(id) == \E k \in 1..Len(notifications) : notifications[k].id = id

\* The events a request has published.
Published(from) == {k \in 1..Len(emitted) : emitted[k].from = from}

\* C25: real-time delivery is fire-and-forget.  A createOrder or
\* updateOrderStatus that has stored its notification has answered with
\* success and its order or status is stored, whether the handle is set or
\* not and whether or not its event has reached a socket: it has published
\* one event exactly when the handle is set, and nothing is delivered to a
\* room with no socket.
C25_FireAndForget ==
  /\ \A r \in CoReqs :
       Stored(<<"co", r>>) =>
         /\ co[r].pc = "done" /\ co[r].code = 201
         /\ r \in DOMAIN orders
         /\ Cardinality(Published(<<"co", r>>)) = (IF io THEN 1 ELSE 0)
  /\ \A r \in UsReqs :
       Stored(<<"us", r>>) =>
         /\ us[r].pc = "done" /\ us[r].code = 200
         /\ orders[us[r].orderId].status = us[r].status
         /\ Cardinality(Published(<<"us", r>>)) = (IF io THEN 1 ELSE 0)
  /\ \A k \in 1..Len(delivered) :
       \E u \in sockets : JoinedRoom(u) = delivered[k].room

\* The handle is set and nobody is connected: the createOrder and the
\* updateOrderStatus have both published an event that reached no socket, and
\* both have answered with success with their notifications stored.
C25_Witness ==
  /\ io /\ sockets = {}
  /\ co[1].pc = "done" /\ co[1].code = 201 /\ Stored(<<"co", 1>>)
  /\ us[1].pc = "done" /\ us[1].code = 200 /\ Stored(<<"us", 1>>)
  /\ Len(emitted) = 2 /\ delivered = <<>>

\* The handle is not set: both requests have answered with success with their
\* notifications stored, and nothing has been published.
C25_WithoutHandle ==
  /\ ~io
  /\ co[1].pc = "done" /\ co[1].code = 201 /\ Stored(<<"co", 1>>)
  /\ us[1].pc = "done" /\ us[1].code = 200 /\ Stored(<<"us", 1>>)
  /\ emitted = <<>> /\ delivered = <<>>

\* Both connected: both events have been delivered.
C25_Delivered ==
  /\ io /\ sockets = {"c1", "s1"}
  /\ Len(delivered) = 2

====
